---- MODULE Spec2Model ----
(***************************************************************************)
(* Model of the text2sql context agent: the entity-to-column resolver      *)
(* (SchemaMapper), the filter assembler (FilterBuilder) and the context    *)
(* assembler (ContextEnricher), run against a metadata provider whose      *)
(* answers are fixed for the duration of a behaviour; and of the vector    *)
(* index of schema items (MetaStore) and the database handle               *)
(* (DatabaseConnection).                                                   *)
(*                                                                         *)
(* Conventions.  Python strings are TLA+ strings.  A Python dict is a      *)
(* record whose DOMAIN holds exactly the keys that are present, so that    *)
(* d.get(k, default) is Get(d, k, default).  A value that may be a string, *)
(* a number or a list (an entity value, a filter value) is a tagged record *)
(* built by StrV, IntV, ListV.  Scores are hundredths (0.7 is 70).         *)
(***************************************************************************)
EXTENDS Integers, Sequences, FiniteSets, TLC

(***************************************************************************)
(* Strings                                                                 *)
(***************************************************************************)
UpperLetters == <<"A","B","C","D","E","F","G","H","I","J","K","L","M",
                  "N","O","P","Q","R","S","T","U","V","W","X","Y","Z">>

LowerLetters == <<"a","b","c","d","e","f","g","h","i","j","k","l","m",
                  "n","o","p","q","r","s","t","u","v","w","x","y","z">>

Digits == <<"0","1","2","3","4","5","6","7","8","9">>

IndexIn(seq, c) ==
    IF \E i \in DOMAIN seq : seq[i] = c
    THEN CHOOSE i \in DOMAIN seq : seq[i] = c
    ELSE 0

CharAt(s, i) == SubSeq(s, i, i)

LowerChar(c) ==
    IF IndexIn(UpperLetters, c) > 0 THEN LowerLetters[IndexIn(UpperLetters, c)] ELSE c

UpperChar(c) ==
    IF IndexIn(LowerLetters, c) > 0 THEN UpperLetters[IndexIn(LowerLetters, c)] ELSE c

IsLetter(c) == IndexIn(UpperLetters, c) > 0 \/ IndexIn(LowerLetters, c) > 0

IsDigit(c) == IndexIn(Digits, c) > 0

RECURSIVE MapChars(_, _, _)
MapChars(s, i, upper) ==
    IF i > Len(s) THEN ""
    ELSE (IF upper THEN UpperChar(CharAt(s, i)) ELSE LowerChar(CharAt(s, i)))
         \o MapChars(s, i + 1, upper)

\* str.lower()
Lower(s) == MapChars(s, 1, FALSE)

\* str.upper()
Upper(s) == MapChars(s, 1, TRUE)

\* str.startswith(p)
StartsWith(s, p) == Len(s) >= Len(p) /\ SubSeq(s, 1, Len(p)) = p

\* str.startswith((p1, p2, ...))
StartsWithAny(s, ps) == \E k \in DOMAIN ps : StartsWith(s, ps[k])

\* p in s
Contains(s, p) ==
    \E i \in 1..(Len(s) - Len(p) + 1) : SubSeq(s, i, i + Len(p) - 1) = p

\* any(p in s for p in ps)
ContainsAny(s, ps) == \E k \in DOMAIN ps : Contains(s, ps[k])

\* the first index at which p occurs in s, 0 when it does not
Find(s, p) ==
    IF Contains(s, p)
    THEN CHOOSE i \in 1..(Len(s) - Len(p) + 1) :
            /\ SubSeq(s, i, i + Len(p) - 1) = p
            /\ \A j \in 1..(i - 1) : SubSeq(s, j, j + Len(p) - 1) # p
    ELSE 0

IsSpace(c) == c = " "

RECURSIVE LStrip(_)
LStrip(s) ==
    IF Len(s) > 0 /\ IsSpace(CharAt(s, 1)) THEN LStrip(SubSeq(s, 2, Len(s))) ELSE s

RECURSIVE RStrip(_)
RStrip(s) ==
    IF Len(s) > 0 /\ IsSpace(CharAt(s, Len(s)))
    THEN RStrip(SubSeq(s, 1, Len(s) - 1)) ELSE s

\* str.strip()
Strip(s) == RStrip(LStrip(s))

RECURSIVE ReplaceChar(_, _, _)
\* str.replace(a, b) for one-character a
ReplaceChar(s, a, b) ==
    IF Len(s) = 0 THEN ""
    ELSE (IF CharAt(s, 1) = a THEN b ELSE CharAt(s, 1))
         \o ReplaceChar(SubSeq(s, 2, Len(s)), a, b)

RECURSIVE TitleFrom(_, _, _)
TitleFrom(s, i, prevLetter) ==
    IF i > Len(s) THEN ""
    ELSE LET c == CharAt(s, i) IN
         (IF ~IsLetter(c) THEN c
          ELSE IF prevLetter THEN LowerChar(c) ELSE UpperChar(c))
         \o TitleFrom(s, i + 1, IsLetter(c))

\* str.title()
Title(s) == TitleFrom(s, 1, FALSE)

\* the value of one decimal digit character
DigitVal(c) == IndexIn(Digits, c) - 1

RECURSIVE ParseInt(_, _)
\* int(s) for a string of decimal digits (acc is the value read so far)
ParseInt(s, acc) ==
    IF Len(s) = 0 THEN acc
    ELSE ParseInt(SubSeq(s, 2, Len(s)), 10 * acc + DigitVal(CharAt(s, 1)))

RECURSIVE DigitRunEnd(_, _)
\* the index of the last character of the run of digits that starts at i
DigitRunEnd(s, i) ==
    IF i < Len(s) /\ IsDigit(CharAt(s, i + 1)) THEN DigitRunEnd(s, i + 1) ELSE i

\* re.findall(r'\d+', s)[0] when s holds a digit, "" when findall is empty
FirstNumber(s) ==
    IF \E i \in 1..Len(s) : IsDigit(CharAt(s, i))
    THEN LET a == CHOOSE i \in 1..Len(s) :
                     /\ IsDigit(CharAt(s, i))
                     /\ \A j \in 1..(i - 1) : ~IsDigit(CharAt(s, j))
         IN SubSeq(s, a, DigitRunEnd(s, a))
    ELSE ""

\* a non-negative number below 10^width as a zero-padded decimal string
RECURSIVE Pad(_, _)
Pad(n, width) ==
    IF width = 0 THEN ""
    ELSE Pad(n \div 10, width - 1) \o Digits[(n % 10) + 1]

(***************************************************************************)
(* Dates: datetime.date as a record [year, month, day]                     *)
(***************************************************************************)
IsLeap(y) == (y % 4 = 0) /\ ((y % 100 # 0) \/ (y % 400 = 0))

DaysInMonth(y, m) ==
    IF m = 2 THEN (IF IsLeap(y) THEN 29 ELSE 28)
    ELSE IF m \in {4, 6, 9, 11} THEN 30 ELSE 31

RECURSIVE DaysBeforeMonth(_, _)
DaysBeforeMonth(y, m) ==
    IF m = 1 THEN 0 ELSE DaysBeforeMonth(y, m - 1) + DaysInMonth(y, m - 1)

DaysBeforeYear(y) ==
    (y - 1) * 365 + ((y - 1) \div 4) - ((y - 1) \div 100) + ((y - 1) \div 400)

\* datetime.date(year, month, day)
Date(y, m, d) == [year |-> y, month |-> m, day |-> d]

\* date.toordinal()
ToOrdinal(dt) ==
    DaysBeforeYear(dt.year) + DaysBeforeMonth(dt.year, dt.month) + dt.day

\* date.fromordinal(n)
FromOrdinal(n) ==
    LET y == CHOOSE yy \in (n \div 366)..((n \div 365) + 1) :
                 DaysBeforeYear(yy) < n /\ n <= DaysBeforeYear(yy + 1)
        r == n - DaysBeforeYear(y)
        m == CHOOSE mm \in 1..12 :
                 DaysBeforeMonth(y, mm) < r
                 /\ r <= DaysBeforeMonth(y, mm) + DaysInMonth(y, mm)
    IN Date(y, m, r - DaysBeforeMonth(y, m))

\* date - datetime.timedelta(days=k)
MinusDays(dt, k) == FromOrdinal(ToOrdinal(dt) - k)

\* date.isoformat()
IsoFormat(dt) ==
    Pad(dt.year, 4) \o "-" \o Pad(dt.month, 2) \o "-" \o Pad(dt.day, 2)

(***************************************************************************)
(* Python values                                                           *)
(***************************************************************************)
\* a str
StrV(s) == [t |-> "str", s |-> s, n |-> 0, l |-> <<>>]

\* an int
IntV(n) == [t |-> "int", s |-> "", n |-> n, l |-> <<>>]

\* a list of values
ListV(l) == [t |-> "list", s |-> "", n |-> 0, l |-> l]

IsStr(v) == v.t = "str"

IsList(v) == v.t = "list"

\* bool(v): the empty string, 0 and the empty list are falsy
Truthy(v) ==
    CASE v.t = "str" -> v.s # ""
      [] v.t = "int" -> v.n # 0
      [] v.t = "list" -> Len(v.l) > 0

\* the absent column name (Python None)
None == "<None>"

\* bool(s) for an optional string
TruthyStr(s) == s # "" /\ s # None

\* bool(d) for a dict: the empty dict is falsy
TruthyDict(d) == DOMAIN d # {}

\* d.get(k, default)
Get(d, k, default) == IF k \in DOMAIN d THEN d[k] ELSE default

RECURSIVE ToStr(_)
\* str(n) for a non-negative int
ToStr(n) == IF n < 10 THEN Digits[n + 1] ELSE ToStr(n \div 10) \o Digits[(n % 10) + 1]

\* str(v), as an f-string formats an entity value
Fmt(v) == IF v.t = "int" THEN ToStr(v.n) ELSE v.s

\* seq[:k]
Take(seq, k) == SubSeq(seq, 1, IF Len(seq) < k THEN Len(seq) ELSE k)

(***************************************************************************)
(* State                                                                   *)
(***************************************************************************)
VARIABLES
    metastore,  \* the metadata provider's answers, by method and query
    today,      \* datetime.date.today()
    input,      \* the arguments the callers pass: the decomposed query, the
                \* table name given to build_filters and map_entity_to_column,
                \* and the entity given to map_entity_to_column
    active,     \* the callers that issue calls
    pc,         \* pc[c]: the position of caller c
    loc,        \* loc[c]: the local variables of the calls caller c is in
    calls,      \* calls[c]: the provider methods the running call has invoked
    history,    \* the completed top-level calls, with their outcomes
    store,      \* the MetaStore object of src/metastore, with its directories
    db          \* the DatabaseConnection object of src/utils

vars == <<metastore, today, input, active, pc, loc, calls, history, store, db>>

\* the number of callers that may share the provider
NumCallers == 2

\* the number of top-level calls made in one behaviour by one caller; each
\* further caller adds one call
MaxCalls == 2

Callers == 1..NumCallers

(***************************************************************************)
(* The metadata provider, as the core consumes it                          *)
(***************************************************************************)
Lookup(f, k) == IF k \in DOMAIN f THEN f[k] ELSE <<>>

\* the filter argument of search_schema when no table filter is passed
NoFilter == ""

search_schema(query, table, top_k) ==
    Take(Lookup(metastore.schema, <<query, table>>), top_k)

search_table_heads(query, table_name, top_k) ==
    Take(Lookup(metastore.heads, <<query, table_name>>), top_k)

find_similar_sql_pairs(query, top_k) ==
    Take(Lookup(metastore.pairs, query), top_k)

\* <<>> when the table has no metadata
get_table_metadata(table_name) == Lookup(metastore.tables, table_name)

get_relevant_columns(table_name, expected_output) ==
    Lookup(metastore.relevant, <<table_name, expected_output>>)

(***************************************************************************)
(* SchemaMapper                                                            *)
(***************************************************************************)
\* an Optional[Tuple[str, float]] that is None
NoMatch == <<>>

\* the acceptance thresholds of steps 1 and 2, and the default and heuristic
\* confidences
ColumnThreshold == 70

SampleThreshold == 80

DefaultPairConfidence == 70

HeuristicConfidence == 60

_search_column_metadata(entity_type, entity_value, table_name) ==
    LET query == entity_type \o " " \o Fmt(entity_value)
        columns == search_schema(query, table_name, 3)
    IN IF Len(columns) > 0
       THEN <<columns[1].name, Get(columns[1], "score", 0)>>
       ELSE NoMatch

_search_table_heads(entity_value, table_name) ==
    LET sample_matches == search_table_heads(Fmt(entity_value), table_name, 3)
    IN IF Len(sample_matches) > 0
       THEN <<sample_matches[1].column_name, Get(sample_matches[1], "score", 0)>>
       ELSE NoMatch

\* the mappings of the pairs, flattened in the order the two loops visit them
RECURSIVE AllMappings(_)
AllMappings(pairs) ==
    IF Len(pairs) = 0 THEN <<>>
    ELSE Get(pairs[1], "entity_mappings", <<>>) \o AllMappings(Tail(pairs))

\* mutant of _search_sql_pairs: the last matching mapping is taken
_search_sql_pairs_Last(entity_type, entity_value, table_name) ==
    LET query == entity_type \o " " \o Fmt(entity_value) \o " in " \o table_name
        similar_pairs == find_similar_sql_pairs(query, 3)
        mappings == AllMappings(similar_pairs)
        Hit(i) == /\ Get(mappings[i], "entity_type", None) = entity_type
                  /\ Get(mappings[i], "table", None) = table_name
    IN IF \E i \in DOMAIN mappings : Hit(i)
       THEN LET i == CHOOSE k \in DOMAIN mappings :
                         Hit(k) /\ \A j \in (k + 1)..Len(mappings) : ~Hit(j)
            IN <<Get(mappings[i], "column", None),
                 Get(mappings[i], "confidence", DefaultPairConfidence)>>
       ELSE NoMatch

_search_sql_pairs(entity_type, entity_value, table_name) ==
    LET query == entity_type \o " " \o Fmt(entity_value) \o " in " \o table_name
        similar_pairs == find_similar_sql_pairs(query, 3)
        mappings == AllMappings(similar_pairs)
        Hit(i) == /\ Get(mappings[i], "entity_type", None) = entity_type
                  /\ Get(mappings[i], "table", None) = table_name
    IN IF \E i \in DOMAIN mappings : Hit(i)
       THEN LET i == CHOOSE k \in DOMAIN mappings :
                         Hit(k) /\ \A j \in 1..(k - 1) : ~Hit(j)
            IN <<Get(mappings[i], "column", None),
                 Get(mappings[i], "confidence", DefaultPairConfidence)>>
       ELSE NoMatch

pattern_map ==
    [status |-> <<"status", "state">>,
     priority |-> <<"priority", "importance", "urgency">>,
     category |-> <<"category", "type", "class">>,
     date |-> <<"date", "time", "created", "updated">>,
     id |-> <<"id", "identifier", "key">>,
     name |-> <<"name", "title">>,
     description |-> <<"description", "details", "text">>]

\* mutant of _heuristic_match: the patterns are tried one after the other over
\* all columns, so the first pattern that occurs anywhere decides
_heuristic_match_PatternMajor(entity_type, table_name) ==
    LET table_metadata == get_table_metadata(table_name)
        patterns == Get(pattern_map, Lower(entity_type), <<Lower(entity_type)>>)
        columns == Get(table_metadata, "columns", <<>>)
        Has(j, i) == Contains(Lower(Get(columns[i], "name", "")), patterns[j])
        Hit(j) == \E i \in DOMAIN columns : Has(j, i)
    IN IF ~TruthyDict(table_metadata) THEN NoMatch
       ELSE IF \E j \in DOMAIN patterns : Hit(j)
       THEN LET j == CHOOSE k \in DOMAIN patterns :
                         Hit(k) /\ \A m \in 1..(k - 1) : ~Hit(m)
                i == CHOOSE k \in DOMAIN columns :
                         Has(j, k) /\ \A m \in 1..(k - 1) : ~Has(j, m)
            IN <<columns[i].name, HeuristicConfidence>>
       ELSE NoMatch

_heuristic_match(entity_type, table_name) ==
    LET table_metadata == get_table_metadata(table_name)
        patterns == Get(pattern_map, Lower(entity_type), <<Lower(entity_type)>>)
        columns == Get(table_metadata, "columns", <<>>)
        Hit(i) == ContainsAny(Lower(Get(columns[i], "name", "")), patterns)
    IN IF ~TruthyDict(table_metadata) THEN NoMatch
       ELSE IF \E i \in DOMAIN columns : Hit(i)
       THEN LET i == CHOOSE k \in DOMAIN columns :
                         Hit(k) /\ \A j \in 1..(k - 1) : ~Hit(j)
            IN <<columns[i].name, HeuristicConfidence>>
       ELSE NoMatch

date_types == <<"DATE", "TIME", "TIMESTAMP">>

date_patterns == <<"date", "time", "created", "updated", "timestamp">>

\* SchemaMapper.find_date_column: None when there is none
find_date_column(table_name) ==
    LET table_metadata == get_table_metadata(table_name)
        columns == Get(table_metadata, "columns", <<>>)
        ByType(i) == ContainsAny(Upper(Get(columns[i], "data_type", "")), date_types)
        ByName(i) == ContainsAny(Lower(Get(columns[i], "name", "")), date_patterns)
    IN IF ~TruthyDict(table_metadata) THEN None
       ELSE IF \E i \in DOMAIN columns : ByType(i)
       THEN columns[CHOOSE k \in DOMAIN columns :
                        ByType(k) /\ \A j \in 1..(k - 1) : ~ByType(j)].name
       ELSE IF \E i \in DOMAIN columns : ByName(i)
       THEN columns[CHOOSE k \in DOMAIN columns :
                        ByName(k) /\ \A j \in 1..(k - 1) : ~ByName(j)].name
       ELSE None

(***************************************************************************)
(* Call outcomes                                                           *)
(***************************************************************************)
Returned(v) == [kind |-> "return", value |-> v]

\* an exception of type exc; msg is the constant head of its message
Raised(exc, msg) == [kind |-> "raise", value |-> [exc |-> exc, msg |-> msg]]

IsReturn(o) == o.kind = "return"

IsRaise(o) == o.kind = "raise"

(***************************************************************************)
(* FilterBuilder: operator and value inference, temporal resolution        *)
(***************************************************************************)
negation_prefixes == <<"not ", "isn't ", "is not ", "doesn't ", "does not ">>

\* mutant of FilterBuilder_operator_map: a status is matched against a list
FilterBuilder_operator_map_WithIn ==
    [status |-> "IN", priority |-> "=", category |-> "=", type |-> "=",
     count |-> ">", amount |-> ">", limit |-> "<=", threshold |-> ">="]

FilterBuilder_operator_map ==
    [status |-> "=", priority |-> "=", category |-> "=", type |-> "=",
     count |-> ">", amount |-> ">", limit |-> "<=", threshold |-> ">="]

FilterBuilder_determine_operator(entity_type, entity_value) ==
    LET low == Lower(entity_value.s) IN
    IF IsStr(entity_value) /\ StartsWithAny(low, negation_prefixes) THEN "!="
    ELSE IF IsStr(entity_value)
            /\ StartsWithAny(low, <<"greater than", "more than", "over">>) THEN ">"
    ELSE IF IsStr(entity_value)
            /\ StartsWithAny(low, <<"less than", "under", "below">>) THEN "<"
    ELSE IF IsStr(entity_value)
            /\ StartsWithAny(low, <<"at least", "minimum">>) THEN ">="
    ELSE IF IsStr(entity_value)
            /\ StartsWithAny(low, <<"at most", "maximum">>) THEN "<="
    ELSE Get(FilterBuilder_operator_map, Lower(entity_type), "=")

comparison_words == <<"than", "least", "most", "minimum", "maximum">>

\* mutant of Split: the string is split at the first separator only
Split_AtFirst(s, sep) ==
    IF Find(s, sep) = 0 THEN <<s>>
    ELSE <<SubSeq(s, 1, Find(s, sep) - 1),
           SubSeq(s, Find(s, sep) + Len(sep), Len(s))>>

RECURSIVE Split(_, _)
\* str.split(sep)
Split(s, sep) ==
    IF Find(s, sep) = 0 THEN <<s>>
    ELSE <<SubSeq(s, 1, Find(s, sep) - 1)>>
         \o Split(SubSeq(s, Find(s, sep) + Len(sep), Len(s)), sep)

\* str.split(sep, 1)
SplitOnce(s, sep) ==
    IF Find(s, sep) = 0 THEN <<s>>
    ELSE <<SubSeq(s, 1, Find(s, sep) - 1),
           SubSeq(s, Find(s, sep) + Len(sep), Len(s))>>

\* [parts[0].strip(), parts[1].strip()]: IndexError when there is no parts[1]
TwoParts(parts) ==
    IF Len(parts) >= 2
    THEN Returned(ListV(<<StrV(Strip(parts[1])), StrV(Strip(parts[2]))>>))
    ELSE Raised("IndexError", "list index out of range")

\* value[len(prefix):].strip() for the first negation prefix value starts with
StripNegation(value) ==
    LET k == CHOOSE i \in DOMAIN negation_prefixes :
                 /\ StartsWith(Lower(value), negation_prefixes[i])
                 /\ \A j \in 1..(i - 1) : ~StartsWith(Lower(value), negation_prefixes[j])
    IN Strip(SubSeq(value, Len(negation_prefixes[k]) + 1, Len(value)))

_process_filter_value(value, operator) ==
    IF operator \in {"=", "!=", "<", ">", "<=", ">="} THEN
        IF IsStr(value) THEN
            IF ContainsAny(Lower(value.s), comparison_words) /\ FirstNumber(value.s) # ""
            THEN Returned(IntV(ParseInt(FirstNumber(value.s), 0)))
            ELSE IF StartsWithAny(Lower(value.s), negation_prefixes)
            THEN Returned(StrV(StripNegation(value.s)))
            ELSE Returned(value)
        ELSE Returned(value)
    ELSE IF operator = "BETWEEN" THEN
        IF IsList(value) /\ Len(value.l) = 2 THEN Returned(value)
        ELSE IF IsStr(value) /\ Contains(Lower(value.s), " to ")
        THEN TwoParts(SplitOnce(value.s, " to "))
        ELSE IF IsStr(value) /\ Contains(value.s, " - ")
        THEN TwoParts(SplitOnce(value.s, " - "))
        ELSE Returned(value)
    ELSE IF operator = "IN" THEN
        IF IsList(value) THEN Returned(value)
        ELSE IF IsStr(value) /\ Contains(value.s, ",")
        THEN LET items == Split(value.s, ",")
             IN Returned(ListV([i \in DOMAIN items |-> StrV(Strip(items[i]))]))
        ELSE Returned(ListV(<<value>>))
    ELSE Returned(value)

\* the number of days a month is approximated by, and the default window
LastWeekDays == 7

LastMonthDays == 30

\* mutant of DefaultDays: the default window is a week
DefaultDays_Week == LastWeekDays

DefaultDays == 30

\* mutant of _resolve_temporal_expression: 'last year' ends on Dec 31 of the
\* current year, and 'yesterday' is returned as the range [yesterday, today]
_resolve_temporal_expression_Slip(expression) ==
    LET e == Lower(expression)
        iso(d) == StrV(IsoFormat(d))
    IN IF e = "today" THEN ListV(<<iso(today)>>)
       ELSE IF e = "yesterday" THEN ListV(<<iso(MinusDays(today, 1)), iso(today)>>)
       ELSE IF e = "last week"
       THEN ListV(<<iso(MinusDays(today, LastWeekDays)), iso(today)>>)
       ELSE IF e = "last month"
       THEN ListV(<<iso(MinusDays(today, LastMonthDays)), iso(today)>>)
       ELSE IF e = "this year"
       THEN ListV(<<iso(Date(today.year, 1, 1)), iso(today)>>)
       ELSE IF e = "last year"
       THEN ListV(<<iso(Date(today.year - 1, 1, 1)), iso(Date(today.year, 12, 31))>>)
       ELSE ListV(<<iso(MinusDays(today, DefaultDays)), iso(today)>>)

_resolve_temporal_expression(expression) ==
    LET e == Lower(expression)
        iso(d) == StrV(IsoFormat(d))
    IN IF e = "today" THEN ListV(<<iso(today)>>)
       ELSE IF e = "yesterday" THEN ListV(<<iso(MinusDays(today, 1))>>)
       ELSE IF e = "last week"
       THEN ListV(<<iso(MinusDays(today, LastWeekDays)), iso(today)>>)
       ELSE IF e = "last month"
       THEN ListV(<<iso(MinusDays(today, LastMonthDays)), iso(today)>>)
       ELSE IF e = "this year"
       THEN ListV(<<iso(Date(today.year, 1, 1)), iso(today)>>)
       ELSE IF e = "last year"
       THEN ListV(<<iso(Date(today.year - 1, 1, 1)), iso(Date(today.year - 1, 12, 31))>>)
       ELSE ListV(<<iso(MinusDays(today, DefaultDays)), iso(today)>>)

\* a filter specification
Filter(name, column, operator, value) ==
    [filter_name |-> name, column_name |-> column, operator |-> operator, value |-> value]

\* FilterBuilder._build_temporal_filter: <<>> stands for None
_build_temporal_filter(temporal_filter, table_name) ==
    LET date_column == find_date_column(table_name)
        given == Get(temporal_filter, "value", ListV(<<>>))
        conditional_statement == Get(temporal_filter, "conditional_statement", "")
        values == IF ~Truthy(given) /\ conditional_statement # ""
                  THEN _resolve_temporal_expression(conditional_statement)
                  ELSE given
    IN IF ~TruthyDict(temporal_filter) THEN <<>>
       ELSE IF ~TruthyStr(date_column) THEN <<>>
       ELSE IF IsList(values) /\ Len(values.l) = 2
       THEN <<Filter("date_range", date_column, "BETWEEN", values)>>
       ELSE IF IsStr(values)
       THEN <<Filter("date_range", date_column, "=", values)>>
       ELSE IF IsList(values) /\ Len(values.l) = 1
       THEN <<Filter("date_range", date_column, "=", values.l[1])>>
       ELSE <<Filter("date_range", date_column, ">", values)>>

(***************************************************************************)
(* Calls: a caller is idle or inside one top-level call; a completed call  *)
(* is recorded in history with its outcome and the provider methods it     *)
(* invoked, in order                                                       *)
(***************************************************************************)
IdleLoc ==
    [op |-> "", m_ret |-> "",
     entity_type |-> "", entity_value |-> StrV(""), table_name |-> "",
     column_match |-> NoMatch, sample_match |-> NoMatch,
     sql_pair_match |-> NoMatch, heuristic_match |-> NoMatch,
     m_out |-> Returned(NoMatch),
     entities |-> <<>>, temporal_filter |-> <<>>, i |-> 0, filters |-> <<>>,
     decomp |-> <<>>, contextual_data |-> <<>>, primary_table |-> "",
     began |-> 0]

\* the calls that are in progress
Running == {c \in Callers : pc[c] # "idle"}

CanCall(c) ==
    /\ c \in active
    /\ pc[c] = "idle"
    /\ Len(history) + Cardinality(Running) < MaxCalls + Cardinality(active) - 1

\* caller c is at position p and becomes l, at position q, having invoked ms;
\* a call that begins notes the number of calls completed before it
Step(c, q, l, ms) ==
    /\ pc' = [pc EXCEPT ![c] = q]
    /\ loc' = [loc EXCEPT ![c] = IF pc[c] = "idle"
                                 THEN [l EXCEPT !.began = Len(history)] ELSE l]
    /\ calls' = [calls EXCEPT ![c] = calls[c] \o ms]
    /\ UNCHANGED <<metastore, today, input, active, history, store, db>>

\* the top-level call of caller c ends with outcome o, having invoked ms
Complete(c, o, ms) ==
    /\ history' = Append(history, [caller |-> c, op |-> loc[c].op,
                                   outcome |-> o, calls |-> calls[c] \o ms,
                                   began |-> loc[c].began])
    /\ pc' = [pc EXCEPT ![c] = "idle"]
    /\ loc' = [loc EXCEPT ![c] = IdleLoc]
    /\ calls' = [calls EXCEPT ![c] = <<>>]
    /\ UNCHANGED <<metastore, today, input, active, store, db>>

(***************************************************************************)
(* SchemaMapper.map_entity_to_column, one action per step of the cascade   *)
(***************************************************************************)
\* map_entity_to_column ends with outcome o: at top level the call is
\* complete, inside build_filters control returns to _build_entity_filter
MapEnd(c, l, o, ms) ==
    IF l.m_ret = "top" THEN Complete(c, o, ms)
    ELSE Step(c, "fb_mapped", [l EXCEPT !.m_out = o], ms)

CallMap(c) ==
    /\ CanCall(c)
    /\ Step(c, "map_step1",
            [IdleLoc EXCEPT !.op = "map_entity_to_column", !.m_ret = "top",
                            !.entity_type = input.entity.entity_type,
                            !.entity_value = input.entity.entity_value,
                            !.table_name = input.table_name], <<>>)

\* mutant of AcceptColumn: the threshold of step 1 taken as inclusive
AcceptColumn_Inclusive(column_match) ==
    column_match # NoMatch /\ column_match[2] >= ColumnThreshold

\* the acceptance test of step 1
AcceptColumn(column_match) ==
    column_match # NoMatch /\ column_match[2] > ColumnThreshold

\* the acceptance test of step 2
AcceptSample(sample_match) ==
    sample_match # NoMatch /\ sample_match[2] > SampleThreshold

\* mutant of MapStep1: the early return of step 1 is missing
MapStep1_NoReturn(c) ==
    /\ pc[c] = "map_step1"
    /\ LET l == loc[c]
           column_match ==
               _search_column_metadata(l.entity_type, l.entity_value, l.table_name)
       IN Step(c, "map_step2", [l EXCEPT !.column_match = column_match],
               <<"search_schema">>)

MapStep1(c) ==
    /\ pc[c] = "map_step1"
    /\ LET l == loc[c]
           column_match ==
               _search_column_metadata(l.entity_type, l.entity_value, l.table_name)
           l1 == [l EXCEPT !.column_match = column_match]
       IN IF AcceptColumn(column_match)
          THEN MapEnd(c, l1, Returned(column_match), <<"search_schema">>)
          ELSE Step(c, "map_step2", l1, <<"search_schema">>)

MapStep2(c) ==
    /\ pc[c] = "map_step2"
    /\ LET l == loc[c]
           sample_match == _search_table_heads(l.entity_value, l.table_name)
           l1 == [l EXCEPT !.sample_match = sample_match]
       IN IF AcceptSample(sample_match)
          THEN MapEnd(c, l1, Returned(sample_match), <<"search_table_heads">>)
          ELSE Step(c, "map_step3", l1, <<"search_table_heads">>)

MapStep3(c) ==
    /\ pc[c] = "map_step3"
    /\ LET l == loc[c]
           sql_pair_match ==
               _search_sql_pairs(l.entity_type, l.entity_value, l.table_name)
           l1 == [l EXCEPT !.sql_pair_match = sql_pair_match]
       IN IF sql_pair_match # NoMatch
          THEN MapEnd(c, l1, Returned(sql_pair_match), <<"find_similar_sql_pairs">>)
          ELSE Step(c, "map_step4", l1, <<"find_similar_sql_pairs">>)

\* mutant of MapStep4: the low-confidence metadata match is returned with the
\* heuristic confidence instead of its own score
MapStep4_Rescored(c) ==
    /\ pc[c] = "map_step4"
    /\ LET l == loc[c]
       IN IF l.column_match # NoMatch
          THEN MapEnd(c, l, Returned(<<l.column_match[1], HeuristicConfidence>>), <<>>)
          ELSE Step(c, "map_step5", l, <<>>)

\* mutant of MapStep4: the low-confidence metadata match is not used
MapStep4_Skipped(c) ==
    /\ pc[c] = "map_step4"
    /\ Step(c, "map_step5", loc[c], <<>>)

MapStep4(c) ==
    /\ pc[c] = "map_step4"
    /\ LET l == loc[c]
       IN IF l.column_match # NoMatch
          THEN MapEnd(c, l, Returned(l.column_match), <<>>)
          ELSE Step(c, "map_step5", l, <<>>)

UnresolvableEntity == Raised("ValueError", "Could not map entity")

\* mutant of MapStep5: the columns are scanned in no fixed order, so any
\* column that contains a pattern may be the one returned
MapStep5_AnyColumn(c) ==
    /\ pc[c] = "map_step5"
    /\ LET l == loc[c]
           meta == get_table_metadata(l.table_name)
           patterns == Get(pattern_map, Lower(l.entity_type), <<Lower(l.entity_type)>>)
           columns == Get(meta, "columns", <<>>)
           hits == {i \in DOMAIN columns : ContainsAny(Lower(columns[i].name), patterns)}
       IN IF hits = {}
          THEN MapEnd(c, l, UnresolvableEntity, <<"get_table_metadata">>)
          ELSE \E i \in hits :
                   MapEnd(c, l, Returned(<<columns[i].name, HeuristicConfidence>>),
                          <<"get_table_metadata">>)

MapStep5(c) ==
    /\ pc[c] = "map_step5"
    /\ LET l == loc[c]
           heuristic_match == _heuristic_match(l.entity_type, l.table_name)
           l1 == [l EXCEPT !.heuristic_match = heuristic_match]
       IN IF heuristic_match # NoMatch
          THEN MapEnd(c, l1, Returned(heuristic_match), <<"get_table_metadata">>)
          ELSE MapEnd(c, l1, UnresolvableEntity, <<"get_table_metadata">>)

MapSteps(c) ==
    \/ MapStep1(c)
    \/ MapStep2(c)
    \/ MapStep3(c)
    \/ MapStep4(c)
    \/ MapStep5(c)

(***************************************************************************)
(* FilterBuilder.build_filters: one action per entity, one for the return  *)
(* of the resolver, one for the temporal filter and the return             *)
(***************************************************************************)
\* the decomposed query caller c passes: the callers pass the same query
\* unless each is given its own
QueryOf(c) == IF "queries" \in DOMAIN input THEN input.queries[c] ELSE input.query

\* the decomposition of the query the callers pass
Decomp == Get(input.query, "query_decomposition", <<>>)

CallBuildFilters(c) ==
    /\ CanCall(c)
    /\ Step(c, "fb_loop",
            [IdleLoc EXCEPT !.op = "build_filters",
                            !.entities = Get(Decomp, "entity_extraction", <<>>),
                            !.temporal_filter = Get(Decomp, "temporal_filtering", <<>>),
                            !.table_name = input.table_name,
                            !.i = 1], <<>>)

\* _build_entity_filter from the operator on, once the column is known
EntityFilter(entity_type, entity_value, mapped_column) ==
    LET operator == FilterBuilder_determine_operator(entity_type, entity_value)
        processed == _process_filter_value(entity_value, operator)
    IN IF IsReturn(processed)
       THEN Returned(Filter(entity_type, mapped_column, operator, processed.value))
       ELSE processed

\* the loop of build_filters takes the outcome o of _build_entity_filter: a
\* filter is appended, a ValueError was caught inside (no filter), any other
\* exception leaves build_filters
NextEntity(c, l, o) ==
    IF IsReturn(o)
    THEN Step(c, "fb_loop", [l EXCEPT !.filters = Append(l.filters, o.value),
                                      !.i = l.i + 1], <<>>)
    ELSE IF o.value.exc = "ValueError"
    THEN Step(c, "fb_loop", [l EXCEPT !.i = l.i + 1], <<>>)
    ELSE Complete(c, o, <<>>)

\* mutant of BuildEntity: a pre-supplied mapped_column is ignored and the
\* column is resolved anew
BuildEntity_AlwaysResolve(c) ==
    /\ pc[c] = "fb_loop"
    /\ loc[c].i <= Len(loc[c].entities)
    /\ LET l == loc[c]
           entity == l.entities[l.i]
           entity_type == Get(entity, "entity_type", "")
           entity_value == Get(entity, "entity_value", StrV(""))
       IN IF entity_type = "" \/ ~Truthy(entity_value)
          THEN Step(c, "fb_loop", [l EXCEPT !.i = l.i + 1], <<>>)
          ELSE Step(c, "map_step1",
                    [l EXCEPT !.m_ret = "fb", !.entity_type = entity_type,
                              !.entity_value = entity_value,
                              !.column_match = NoMatch, !.sample_match = NoMatch,
                              !.sql_pair_match = NoMatch,
                              !.heuristic_match = NoMatch], <<>>)

BuildEntity(c) ==
    /\ pc[c] = "fb_loop"
    /\ loc[c].i <= Len(loc[c].entities)
    /\ LET l == loc[c]
           entity == l.entities[l.i]
           entity_type == Get(entity, "entity_type", "")
           entity_value == Get(entity, "entity_value", StrV(""))
           mapped_column == Get(entity, "mapped_column", "")
       IN IF entity_type = "" \/ ~Truthy(entity_value)
          THEN Step(c, "fb_loop", [l EXCEPT !.i = l.i + 1], <<>>)
          ELSE IF TruthyStr(mapped_column)
          THEN NextEntity(c, l, EntityFilter(entity_type, entity_value, mapped_column))
          ELSE Step(c, "map_step1",
                    [l EXCEPT !.m_ret = "fb", !.entity_type = entity_type,
                              !.entity_value = entity_value,
                              !.column_match = NoMatch, !.sample_match = NoMatch,
                              !.sql_pair_match = NoMatch,
                              !.heuristic_match = NoMatch], <<>>)

BuildMapped(c) ==
    /\ pc[c] = "fb_mapped"
    /\ LET l == loc[c]
       IN IF IsReturn(l.m_out)
          THEN NextEntity(c, l, EntityFilter(l.entity_type, l.entity_value,
                                             l.m_out.value[1]))
          ELSE NextEntity(c, l, l.m_out)

BuildTemporal(c) ==
    /\ pc[c] = "fb_loop"
    /\ loc[c].i > Len(loc[c].entities)
    /\ LET l == loc[c]
       IN IF TruthyDict(l.temporal_filter)
          THEN Complete(c, Returned(l.filters
                                    \o _build_temporal_filter(l.temporal_filter,
                                                              l.table_name)),
                        <<"get_table_metadata">>)
          ELSE Complete(c, Returned(l.filters), <<>>)

BuildSteps(c) ==
    \/ BuildEntity(c)
    \/ BuildMapped(c)
    \/ BuildTemporal(c)

(***************************************************************************)
(* FilterBuilder._process_filter_value called on its own                   *)
(***************************************************************************)
CallProcessValue(c) ==
    /\ CanCall(c)
    /\ Step(c, "fv_process",
            [IdleLoc EXCEPT !.op = "_process_filter_value",
                            !.entity_value = input.value], <<>>)

ProcessValue(c) ==
    /\ pc[c] = "fv_process"
    /\ Complete(c, _process_filter_value(loc[c].entity_value, input.operator), <<>>)

(***************************************************************************)
(* ContextEnricher.enrich_query, one action per statement of enrich_query  *)
(* (and per entity inside _build_filters)                                  *)
(***************************************************************************)
RECURSIVE Join(_, _)
\* sep.join(parts)
Join(parts, sep) ==
    IF Len(parts) = 0 THEN ""
    ELSE IF Len(parts) = 1 THEN parts[1]
    ELSE parts[1] \o sep \o Join(Tail(parts), sep)

Goal == Get(Get(Decomp, "intent", <<>>), "goal", "")

_initialize_contextual_data(decomposed_query) ==
    LET decomp == Get(decomposed_query, "query_decomposition", <<>>)
    IN [intent |-> Get(Get(decomp, "intent", <<>>), "goal", ""),
        context |-> [description |->
                         Get(Get(decomp, "context", <<>>), "description", ""),
                     expected_output |->
                         Get(Get(decomp, "context", <<>>), "expected_output", "")]]

CallEnrich(c) ==
    /\ CanCall(c)
    /\ Step(c, "en_primary_table",
            [IdleLoc EXCEPT !.op = "enrich_query",
                            !.decomp = Get(QueryOf(c), "query_decomposition", <<>>),
                            !.contextual_data = _initialize_contextual_data(QueryOf(c))],
            <<>>)

\* the entity types and values, as _determine_primary_table collects them
RECURSIVE EntityWords(_)
EntityWords(entities) ==
    IF Len(entities) = 0 THEN <<>>
    ELSE <<StrV(Get(entities[1], "entity_type", "")),
           Get(entities[1], "entity_value", StrV(""))>>
         \o EntityWords(Tail(entities))

\* the search query of _determine_primary_table
SearchQuery(decomp) ==
    LET words == EntityWords(Get(decomp, "entity_extraction", <<>>))
    IN Get(Get(decomp, "intent", <<>>), "goal", "")
       \o " " \o Join([k \in DOMAIN words |-> words[k].s], " ")

NoRelevantTable == Raised("ValueError", "No relevant tables found for the query")

NoTableMetadata == Raised("ValueError", "No metadata found for table")

\* _determine_primary_table: str.join raises TypeError on a non-string item
EnrichPrimaryTable(c) ==
    /\ pc[c] = "en_primary_table"
    /\ LET l == loc[c]
           words == EntityWords(Get(l.decomp, "entity_extraction", <<>>))
           relevant_tables == search_schema(SearchQuery(l.decomp), NoFilter, 3)
       IN IF \E k \in DOMAIN words : ~IsStr(words[k])
          THEN Complete(c, Raised("TypeError", "sequence item: expected str instance"),
                        <<>>)
          ELSE IF Len(relevant_tables) = 0
          THEN Complete(c, NoRelevantTable, <<"search_schema">>)
          ELSE Step(c, "en_table_metadata",
                    [l EXCEPT !.primary_table = relevant_tables[1].name],
                    <<"search_schema">>)

\* the dict {column name: data type}; a later column of the same name wins
TableFields(columns) ==
    [n \in {columns[k].name : k \in DOMAIN columns} |->
        columns[CHOOSE k \in DOMAIN columns :
                    /\ columns[k].name = n
                    /\ \A j \in DOMAIN columns : columns[j].name = n => j <= k].data_type]

EnrichTableMetadata(c) ==
    /\ pc[c] = "en_table_metadata"
    /\ LET l == loc[c]
           table_metadata == get_table_metadata(l.primary_table)
           formatted ==
               [primary_table |-> l.primary_table,
                table_description |-> Get(table_metadata, "description", ""),
                table_fields |-> TableFields(Get(table_metadata, "columns", <<>>))]
       IN IF ~TruthyDict(table_metadata)
          THEN Complete(c, NoTableMetadata, <<"get_table_metadata">>)
          ELSE Step(c, "en_filters",
                    [l EXCEPT !.contextual_data =
                                  [table_metadata |-> formatted] @@ l.contextual_data,
                              !.entities = Get(l.decomp, "entity_extraction", <<>>),
                              !.temporal_filter =
                                  Get(l.decomp, "temporal_filtering", <<>>),
                              !.table_name = l.primary_table,
                              !.i = 1],
                    <<"get_table_metadata">>)

\* ContextEnricher._map_entity_to_column: its outcome and the provider
\* methods it invokes
ContextEnricher_map_entity_to_column(entity_type, entity_value, table_name) ==
    LET query == entity_type \o " " \o Fmt(entity_value)
        columns == search_schema(query, table_name, 3)
        sample_matches == Lookup(metastore.heads, <<Fmt(entity_value), table_name>>)
    IN IF Len(columns) > 0
       THEN [outcome |-> Returned(columns[1].name), calls |-> <<"search_schema">>]
       ELSE IF Len(sample_matches) > 0
               /\ TruthyStr(Get(sample_matches[1], "column_name", None))
       THEN [outcome |-> Returned(sample_matches[1].column_name),
             calls |-> <<"search_schema", "search_table_heads">>]
       ELSE [outcome |-> UnresolvableEntity,
             calls |-> <<"search_schema", "search_table_heads">>]

ContextEnricher_operator_map ==
    [status |-> "=", priority |-> "=", category |-> "=", type |-> "=",
     count |-> ">", amount |-> ">", limit |-> "<="]

ContextEnricher_determine_operator(entity_type, entity_value) ==
    Get(ContextEnricher_operator_map, entity_type, "=")

\* the entity loop of ContextEnricher._build_filters
EnrichEntity(c) ==
    /\ pc[c] = "en_filters"
    /\ loc[c].i <= Len(loc[c].entities)
    /\ LET l == loc[c]
           entity == l.entities[l.i]
           entity_type == Get(entity, "entity_type", "")
           entity_value == Get(entity, "entity_value", StrV(""))
           given == Get(entity, "mapped_column", "")
           mapped == ContextEnricher_map_entity_to_column(entity_type, entity_value,
                                                          l.table_name)
           operator == ContextEnricher_determine_operator(entity_type, entity_value)
       IN IF TruthyStr(given)
          THEN Step(c, "en_filters",
                    [l EXCEPT !.filters = Append(l.filters,
                                  Filter(entity_type, given, operator, entity_value)),
                              !.i = l.i + 1], <<>>)
          ELSE IF IsReturn(mapped.outcome)
          THEN Step(c, "en_filters",
                    [l EXCEPT !.filters = Append(l.filters,
                                  Filter(entity_type, mapped.outcome.value, operator,
                                         entity_value)),
                              !.i = l.i + 1], mapped.calls)
          ELSE Complete(c, mapped.outcome, mapped.calls)

\* ContextEnricher._find_date_column: the first column that has a date type
\* or a date-like name; None when there is none
ContextEnricher_find_date_column(table_name) ==
    LET table_metadata == get_table_metadata(table_name)
        columns == Get(table_metadata, "columns", <<>>)
        IsDate(i) ==
            \/ ContainsAny(Upper(Get(columns[i], "data_type", "")), date_types)
            \/ ContainsAny(Lower(Get(columns[i], "name", "")), date_patterns)
    IN IF ~TruthyDict(table_metadata) THEN None
       ELSE IF \E i \in DOMAIN columns : IsDate(i)
       THEN Get(columns[CHOOSE k \in DOMAIN columns :
                            IsDate(k) /\ \A j \in 1..(k - 1) : ~IsDate(j)], "name", "")
       ELSE None

\* the temporal part of ContextEnricher._build_filters, and its return
EnrichTemporal(c) ==
    /\ pc[c] = "en_filters"
    /\ loc[c].i > Len(loc[c].entities)
    /\ LET l == loc[c]
           temporal == l.temporal_filter
           date_column == ContextEnricher_find_date_column(l.table_name)
           filters ==
               IF TruthyDict(temporal) /\ TruthyStr(date_column)
               THEN Append(l.filters,
                           Filter("date_range", date_column, "BETWEEN",
                                  Get(temporal, "value", ListV(<<>>))))
               ELSE l.filters
       IN Step(c, "en_output_columns",
               [l EXCEPT !.contextual_data = [filters |-> filters] @@ l.contextual_data],
               IF TruthyDict(temporal) THEN <<"get_table_metadata">> ELSE <<>>)

_format_column_name(column_name) == Title(ReplaceChar(column_name, "_", " "))

OutputColumn(column, alias) ==
    [column_name |-> column.name,
     alias |-> alias,
     column_description |-> Get(column, "description", ""),
     column_fields |-> [data_type |-> column.data_type,
                        nullable |-> Get(column, "nullable", TRUE)]]

RECURSIVE _get_key_columns_PrimaryOnly(_)
\* mutant of _get_key_columns: only the primary-key columns are kept
_get_key_columns_PrimaryOnly(columns) ==
    IF Len(columns) = 0 THEN <<>>
    ELSE (IF Get(columns[1], "is_primary_key", FALSE)
          THEN <<OutputColumn(columns[1], _format_column_name(columns[1].name))>>
          ELSE <<>>)
         \o _get_key_columns_PrimaryOnly(Tail(columns))

RECURSIVE _get_key_columns(_)
\* _get_key_columns, over the columns of the table metadata
_get_key_columns(columns) ==
    IF Len(columns) = 0 THEN <<>>
    ELSE (IF Get(columns[1], "is_primary_key", FALSE)
             \/ Contains(Lower(columns[1].name), "id")
          THEN <<OutputColumn(columns[1], _format_column_name(columns[1].name))>>
          ELSE <<>>)
         \o _get_key_columns(Tail(columns))

EnrichOutputColumns(c) ==
    /\ pc[c] = "en_output_columns"
    /\ LET l == loc[c]
           intent == Get(Get(l.decomp, "intent", <<>>), "goal", "")
           expected_output ==
               Get(Get(l.decomp, "context", <<>>), "expected_output", "")
           table_metadata == get_table_metadata(l.primary_table)
           found == get_relevant_columns(l.primary_table, expected_output)
           relevant_columns ==
               IF Len(found) > 0 THEN found ELSE Get(table_metadata, "columns", <<>>)
           output_columns ==
               [k \in DOMAIN relevant_columns |->
                   OutputColumn(relevant_columns[k],
                                Get(relevant_columns[k], "display_name",
                                    _format_column_name(relevant_columns[k].name)))]
       IN IF ~TruthyDict(table_metadata)
          THEN Complete(c, NoTableMetadata, <<"get_table_metadata">>)
          ELSE IF StartsWith(intent, "count_") \/ StartsWith(intent, "aggregate_")
          THEN Step(c, "en_validate",
                    [l EXCEPT !.contextual_data =
                        [output_columns |->
                            _get_key_columns(Get(table_metadata, "columns", <<>>))]
                        @@ l.contextual_data],
                    <<"get_table_metadata">>)
          ELSE Step(c, "en_validate",
                    [l EXCEPT !.contextual_data =
                        [output_columns |-> output_columns] @@ l.contextual_data],
                    <<"get_table_metadata", "get_relevant_columns">>)

\* mutant of required_fields: filters is not required
required_fields_NoFilters == <<"intent", "context", "table_metadata", "output_columns">>

required_fields == <<"intent", "context", "filters", "table_metadata", "output_columns">>

\* mutant of FieldTruthy: a field that is present counts as filled
FieldTruthy_Present(contextual_data, field) == field \in DOMAIN contextual_data

\* bool(contextual_data[field])
FieldTruthy(contextual_data, field) ==
    CASE field = "intent" -> contextual_data.intent # ""
      [] field \in {"context", "table_metadata"} -> TruthyDict(contextual_data[field])
      [] field \in {"filters", "output_columns"} -> Len(contextual_data[field]) > 0

\* _validate_contextual_data: the message of the ValueError it raises, ""
\* when it raises none
_validate_contextual_data(contextual_data) ==
    IF \E k \in DOMAIN required_fields :
           \/ required_fields[k] \notin DOMAIN contextual_data
           \/ ~FieldTruthy(contextual_data, required_fields[k])
    THEN "Contextual data missing required field"
    ELSE IF ~TruthyStr(Get(Get(contextual_data, "table_metadata", <<>>),
                           "primary_table", None))
    THEN "Table metadata missing primary table"
    ELSE IF Len(Get(contextual_data, "output_columns", <<>>)) = 0
    THEN "No output columns specified"
    ELSE ""

\* mutant of EnrichValidate: the record under construction is kept in one
\* place that the calls in progress share
EnrichValidate_Shared(c) ==
    /\ pc[c] = "en_validate"
    /\ \E d \in Callers :
           /\ pc[d] = "en_validate"
           /\ LET error == _validate_contextual_data(loc[d].contextual_data)
              IN IF error # ""
                 THEN Complete(c, Raised("ValueError", error), <<>>)
                 ELSE Complete(c, Returned(loc[d].contextual_data), <<>>)

\* _validate_contextual_data called on the record the caller passes; the
\* outcome of such a call is the record as the caller holds it afterwards
CallValidate(c) ==
    /\ CanCall(c)
    /\ Step(c, "en_validate",
            [IdleLoc EXCEPT !.op = "_validate_contextual_data",
                            !.contextual_data = input.contextual_data], <<>>)

EnrichValidate(c) ==
    /\ pc[c] = "en_validate"
    /\ LET l == loc[c]
           error == _validate_contextual_data(l.contextual_data)
       IN IF error # ""
          THEN Complete(c, Raised("ValueError", error), <<>>)
          ELSE Complete(c, Returned(l.contextual_data), <<>>)

EnrichSteps(c) ==
    \/ EnrichPrimaryTable(c)
    \/ EnrichTableMetadata(c)
    \/ EnrichEntity(c)
    \/ EnrichTemporal(c)
    \/ EnrichOutputColumns(c)
    \/ EnrichValidate(c)

(***************************************************************************)
(* MetaStore: the vector index of schema items, its two parallel lists and *)
(* the two files it is saved to.  The index is the sequence of the vectors *)
(* added to it; a vector is known by the text it encodes.  Positions count *)
(* from 1.                                                                 *)
(***************************************************************************)
\* a file: absent, unreadable, or holding data
NoFile == [state |-> "absent"]

CorruptFile == [state |-> "corrupt"]

FileOf(data) == [state |-> "ok", data |-> data]

\* str.endswith(p)
EndsWith(s, p) == Len(s) >= Len(p) /\ SubSeq(s, Len(s) - Len(p) + 1, Len(s)) = p

\* SentenceTransformer.encode([text])[0]
encode(text) == <<"vector", text>>

\* faiss.IndexFlatL2(dimension): an index without vectors
IndexFlatL2 == <<>>

_add_to_index(s, text, metadata) ==
    [s EXCEPT !.schema_index = Append(@, encode(text)),
              !.schema_texts = Append(@, text),
              !.schema_metadata = Append(@, metadata)]

RECURSIVE IndexColumns(_, _, _, _)
\* the loop over schema_data['columns'] of index_schema_data
IndexColumns(s, columns, table_name, schema_file) ==
    IF Len(columns) = 0 THEN s
    ELSE LET column_name == Get(columns[1], "name", "")
             column_type == Get(columns[1], "type", "")
             column_text == "Column: " \o column_name \o " in table " \o table_name
                            \o " with type " \o column_type
             s1 == IF column_name = "" THEN s
                   ELSE _add_to_index(s, column_text,
                            [type |-> "column", table_name |-> table_name,
                             column_name |-> column_name,
                             column_type |-> column_type, file |-> schema_file])
         IN IndexColumns(s1, Tail(columns), table_name, schema_file)

RECURSIVE IndexForeignKeys(_, _, _, _)
\* the loop over schema_data['foreign_keys'] of index_schema_data
IndexForeignKeys(s, foreign_keys, table_name, schema_file) ==
    IF Len(foreign_keys) = 0 THEN s
    ELSE LET constrained_cols == Get(foreign_keys[1], "constrained_columns", <<>>)
             referred_table == Get(foreign_keys[1], "referred_table", "")
             referred_cols == Get(foreign_keys[1], "referred_columns", <<>>)
             fk_text == "Foreign Key: " \o Join(constrained_cols, ", ")
                        \o " in table " \o table_name \o " references "
                        \o Join(referred_cols, ", ") \o " in table " \o referred_table
             s1 == IF Len(constrained_cols) = 0 \/ referred_table = ""
                      \/ Len(referred_cols) = 0
                   THEN s
                   ELSE _add_to_index(s, fk_text,
                            [type |-> "foreign_key", table_name |-> table_name,
                             constrained_columns |-> constrained_cols,
                             referred_table |-> referred_table,
                             referred_columns |-> referred_cols,
                             file |-> schema_file])
         IN IndexForeignKeys(s1, Tail(foreign_keys), table_name, schema_file)

RECURSIVE IndexFiles(_, _)
\* the loop over the schema files of index_schema_data; a file that cannot be
\* read as JSON raises and ends the loop
IndexFiles(s, schema_files) ==
    IF Len(schema_files) = 0 THEN [store |-> s, raised |-> FALSE]
    ELSE LET schema_file == schema_files[1].file
             content == schema_files[1].content
             schema_data == content.data
             table_name == Get(schema_data, "table_name", "")
             s1 == _add_to_index(s, "Table: " \o table_name,
                       [type |-> "table", table_name |-> table_name,
                        file |-> schema_file])
             s2 == IndexColumns(s1, Get(schema_data, "columns", <<>>),
                                table_name, schema_file)
             s3 == IndexForeignKeys(s2, Get(schema_data, "foreign_keys", <<>>),
                                    table_name, schema_file)
         IN IF content.state # "ok" THEN [store |-> s, raised |-> TRUE]
            ELSE IF table_name = "" THEN IndexFiles(s, Tail(schema_files))
            ELSE IndexFiles(s3, Tail(schema_files))

\* what can go wrong while the two files are written: nothing; the index file
\* cannot be written; the metadata file cannot be opened; the metadata file
\* is opened and the dump into it fails
SaveFaults == {"none", "index_write", "metadata_open", "metadata_write"}

_save_indices(s, fault) ==
    LET index_file == FileOf(s.schema_index)
        metadata_file == FileOf([texts |-> s.schema_texts,
                                 metadata |-> s.schema_metadata])
    IN IF fault = "index_write" THEN [store |-> s, result |-> FALSE]
       ELSE IF fault = "metadata_open"
       THEN [store |-> [s EXCEPT !.index_file = index_file], result |-> FALSE]
       ELSE IF fault = "metadata_write"
       THEN [store |-> [s EXCEPT !.index_file = index_file,
                                 !.metadata_file = CorruptFile],
             result |-> FALSE]
       ELSE [store |-> [s EXCEPT !.index_file = index_file,
                                 !.metadata_file = metadata_file],
             result |-> TRUE]

_load_or_create_indices(s) ==
    IF /\ s.index_file.state # "absent" /\ s.metadata_file.state # "absent"
       \* read_index and json.load succeed
       /\ s.index_file.state = "ok" /\ s.metadata_file.state = "ok"
    THEN [s EXCEPT !.schema_index = s.index_file.data,
                   !.schema_texts = Get(s.metadata_file.data, "texts", <<>>),
                   !.schema_metadata = Get(s.metadata_file.data, "metadata", <<>>)]
    ELSE [s EXCEPT !.schema_index = IndexFlatL2,
                   !.schema_texts = <<>>,
                   !.schema_metadata = <<>>]

\* MetaStore(...) over the given directories
MetaStore__init__(schema_dir, index_file, metadata_file) ==
    _load_or_create_indices(
        [schema_dir |-> schema_dir, index_file |-> index_file,
         metadata_file |-> metadata_file,
         schema_index |-> IndexFlatL2, schema_texts |-> <<>>,
         schema_metadata |-> <<>>])

\* the result list of MetaStore.search_schema for the positions the index
\* search found, without the distances
Results(s, indices) ==
    LET kept == SelectSeq(indices, LAMBDA idx : idx <= Len(s.schema_texts))
    IN [i \in DOMAIN kept |-> [text |-> s.schema_texts[kept[i]],
                               metadata |-> s.schema_metadata[kept[i]]]]

\* MetaStore.search_schema, given the positions of the nearest vectors
MetaStore_search_schema(s, indices) ==
    IF Len(s.schema_index) = 0 THEN Returned(<<>>)
    ELSE IF \E i \in DOMAIN indices :
                indices[i] <= Len(s.schema_texts)
                /\ indices[i] > Len(s.schema_metadata)
    THEN Raised("IndexError", "list index out of range")
    ELSE Returned(Results(s, indices))

\* the number of operations on the store in one behaviour
MaxStoreOps == 4

\* the k of search_schema that the behaviours use
SearchK == 1

\* an operation on the store ends with outcome o; found is what the index
\* search returned
StoreDone(op, o, found) ==
    /\ history' = Append(history, [caller |-> 1, op |-> op, outcome |-> o,
                                   calls |-> <<>>, began |-> Len(history),
                                   found |-> found])
    /\ UNCHANGED <<metastore, today, input, active, pc, loc, calls, db>>

StoreCanCall == Len(history) < MaxStoreOps

\* os.listdir: the files of the directory in any order
Listings(dir) ==
    {q \in [1..Cardinality(dir) -> dir] : \A i, j \in DOMAIN q : q[i] = q[j] => i = j}

\* a new MetaStore object is constructed over the same directories
Construct ==
    /\ StoreCanCall
    /\ store' = MetaStore__init__(store.schema_dir, store.index_file,
                                  store.metadata_file)
    /\ StoreDone("MetaStore", Returned(TRUE), <<>>)

IndexSchemaData ==
    /\ StoreCanCall
    /\ \E listing \in Listings(store.schema_dir), fault \in SaveFaults :
         LET cleared == [store EXCEPT !.schema_index = IndexFlatL2,
                                      !.schema_texts = <<>>,
                                      !.schema_metadata = <<>>]
             schema_files ==
                 SelectSeq(listing,
                           LAMBDA f : /\ EndsWith(f.file, "_schema.json")
                                      /\ ~StartsWith(f.file, "complete"))
             indexed == IndexFiles(cleared, schema_files)
         IN IF indexed.raised
            THEN /\ store' = indexed.store
                 /\ StoreDone("index_schema_data", Returned(FALSE), <<>>)
            ELSE /\ store' = _save_indices(indexed.store, fault).store
                 /\ StoreDone("index_schema_data", Returned(TRUE), <<>>)

SaveIndices ==
    /\ StoreCanCall
    /\ \E fault \in SaveFaults :
         /\ store' = _save_indices(store, fault).store
         /\ StoreDone("_save_indices",
                      Returned(_save_indices(store, fault).result), <<>>)

\* the positions an index search for k vectors may return
Nearest(s, k) ==
    LET n == IF Len(s.schema_index) < k THEN Len(s.schema_index) ELSE k
    IN {q \in [1..n -> DOMAIN s.schema_index] :
           \A i, j \in DOMAIN q : q[i] = q[j] => i = j}

SearchSchema ==
    /\ StoreCanCall
    /\ \E indices \in Nearest(store, SearchK) :
         /\ StoreDone("search_schema", MetaStore_search_schema(store, indices),
                      [i \in DOMAIN indices |-> store.schema_index[indices[i]]])
    /\ UNCHANGED store

(***************************************************************************)
(* DatabaseConnection: engine, metadata and inspector are 0 (None) or the  *)
(* number of the connect() call that made them                             *)
(***************************************************************************)
DatabaseConnection__init__(connection_string) ==
    [connection_string |-> connection_string,
     engine |-> 0, metadata |-> 0, inspector |-> 0]

\* create_engine raises ArgumentError, an SQLAlchemyError, for a string that
\* is no database URL
IsUrl(connection_string) == Contains(connection_string, "://")

\* where else connect() can fail with an SQLAlchemyError: nowhere, in the
\* test query, in the reflection of the tables
ConnectFaults == {"none", "test_connection", "reflect"}

\* connect() as call number n: the connection after it and its result
connect(d, n, fault) ==
    IF d.connection_string = "" THEN [db |-> d, result |-> FALSE]
    ELSE IF ~IsUrl(d.connection_string) THEN [db |-> d, result |-> FALSE]
    ELSE IF fault = "test_connection"
    THEN [db |-> [d EXCEPT !.engine = n], result |-> FALSE]
    ELSE IF fault = "reflect"
    THEN [db |-> [d EXCEPT !.engine = n, !.metadata = n], result |-> FALSE]
    ELSE [db |-> [d EXCEPT !.engine = n, !.metadata = n, !.inspector = n],
          result |-> TRUE]

NotConnected == "Not connected to database"

\* the number of operations on the connection in one behaviour
MaxDbOps == 4

DbCanCall == Len(history) < MaxDbOps

\* an operation on the connection ends with outcome o, having used the
\* engine or inspector numbered contacted (0: the database was not contacted)
DbDone(op, o, contacted) ==
    /\ history' = Append(history, [caller |-> 1, op |-> op, outcome |-> o,
                                   calls |-> <<>>, began |-> Len(history),
                                   contacted |-> contacted])
    /\ UNCHANGED <<metastore, today, input, active, pc, loc, calls, store>>

\* the connect() calls made so far
Connects == {k \in DOMAIN history : history[k].op = "connect"}

Connect ==
    /\ DbCanCall
    /\ \E fault \in ConnectFaults :
         LET n == Cardinality(Connects) + 1 IN
         /\ db' = connect(db, n, fault).db
         /\ DbDone("connect", Returned(connect(db, n, fault).result),
                   IF ~IsUrl(db.connection_string) THEN 0 ELSE n)

\* the answers of a database that is reached: it works or it reports an error
DbAnswers == {"ok", "error"}

GetTables ==
    /\ DbCanCall
    /\ IF db.engine = 0 \/ db.inspector = 0
       THEN DbDone("get_tables", Returned(<<>>), 0)
       ELSE \E answer \in DbAnswers :
                DbDone("get_tables",
                       IF answer = "ok" THEN Returned(<<"orders", "items">>)
                       ELSE Raised("SQLAlchemyError", ""),
                       db.inspector)
    /\ UNCHANGED db

GetSchemaInfo ==
    /\ DbCanCall
    /\ IF db.engine = 0 \/ db.inspector = 0
       THEN DbDone("get_schema_info", Returned(<<>>), 0)
       ELSE \E answer \in DbAnswers :
                DbDone("get_schema_info",
                       IF answer = "ok"
                       THEN Returned([t \in {"orders", "items"} |->
                                         [columns |-> <<>>, primary_keys |-> <<>>,
                                          foreign_keys |-> <<>>]])
                       ELSE Raised("SQLAlchemyError", ""),
                       db.inspector)
    /\ UNCHANGED db

ExecuteQuery ==
    /\ DbCanCall
    /\ IF db.engine = 0
       THEN DbDone("execute_query", Returned(<<FALSE, NotConnected>>), 0)
       ELSE \E answer \in DbAnswers :
                DbDone("execute_query",
                       IF answer = "ok"
                       THEN Returned(<<TRUE, "Query executed successfully">>)
                       ELSE Returned(<<FALSE, "SQLAlchemyError">>),
                       db.engine)
    /\ UNCHANGED db

(***************************************************************************)
(* The inputs the behaviours are drawn from                                *)
(***************************************************************************)
Column(name, data_type, pk) ==
    [name |-> name, data_type |-> data_type, nullable |-> ~pk,
     description |-> "", is_primary_key |-> pk]

\* the tables the provider has metadata for ("ghost" has none): accounts has
\* a key that is not named id and columns named *id* that are no keys, tags
\* has neither a key nor a date column
Catalog ==
    [orders |-> [name |-> "orders", description |-> "Customer orders",
                 columns |-> <<Column("order_id", "INTEGER", TRUE),
                               Column("status", "VARCHAR", FALSE),
                               Column("created_at", "TIMESTAMP", FALSE),
                               Column("amount", "DECIMAL", FALSE)>>],
     items |-> [name |-> "items", description |-> "Stock items",
                columns |-> <<Column("item_id", "INTEGER", TRUE),
                              Column("Title", "VARCHAR", FALSE),
                              Column("State", "VARCHAR", FALSE),
                              Column("Item_Status", "VARCHAR", FALSE)>>],
     events |-> [name |-> "events", description |-> "Audit events",
                 columns |-> <<Column("event_id", "INTEGER", TRUE),
                               Column("updated_by", "VARCHAR", FALSE),
                               Column("occurred", "date", FALSE)>>],
     accounts |-> [name |-> "accounts", description |-> "Customer accounts",
                   columns |-> <<Column("code", "VARCHAR", TRUE),
                                 Column("Owner_ID", "INTEGER", FALSE),
                                 Column("label", "VARCHAR", FALSE),
                                 Column("paid_on", "VARCHAR", FALSE)>>],
     tags |-> [name |-> "tags", description |-> "Free labels",
               columns |-> <<Column("label", "VARCHAR", FALSE),
                             Column("colour", "VARCHAR", FALSE)>>]]

TableNames == {"orders", "items", "events", "ghost"}

Entity(type, value) == [entity_type |-> type, entity_value |-> value]

Hit(name, score) == [name |-> name, score |-> score]

\* the scores a search hit may carry, around the two thresholds
Scores == {50, 70, 71, 80, 81}

\* the answers of the column-metadata search for one query
SchemaAnswers ==
    {<<>>, <<[name |-> "status"]>>, <<Hit("orders", 90), Hit("status", 60)>>}
    \cup {<<Hit("status", sc)>> : sc \in Scores}

\* the answers of the sample-value search for one query
HeadAnswers ==
    {<<>>, <<[column_name |-> "State"]>>}
    \cup {<<[column_name |-> "amount", score |-> sc]>> : sc \in {50, 80, 81}}

Mapping(type, table, column) ==
    [entity_type |-> type, table |-> table, column |-> column]

\* the answers of the prior-query search for one query, for entity e and table t
PairAnswers(e, t) ==
    {<<>>,
     <<[sql |-> "SELECT 1"]>>,
     <<[entity_mappings |-> <<Mapping("colour", t, "amount"),
                              Mapping(e.entity_type, "other", "amount")>>]>>,
     <<[entity_mappings |-> <<Mapping("colour", t, "amount")>>],
       [entity_mappings |-> <<Mapping(e.entity_type, t, "created_at"),
                              Mapping(e.entity_type, t, "amount")
                                  @@ [confidence |-> 95]>>]>>,
     <<[entity_mappings |-> <<Mapping(e.entity_type, t, "status")
                                  @@ [confidence |-> 40]>>]>>,
     <<[entity_mappings |-> <<[entity_type |-> e.entity_type, table |-> t]>>]>>}

MapperEntities ==
    {Entity("status", StrV("open")), Entity("Priority", StrV("high")),
     Entity("severity", StrV("critical")), Entity("id", IntV(42)),
     Entity("Item", StrV("bolt"))}

ColumnQuery(e) == e.entity_type \o " " \o Fmt(e.entity_value)

PairQuery(e, t) == ColumnQuery(e) \o " in " \o t

EmptyQuery ==
    [query_decomposition |->
        [intent |-> [goal |-> ""], entity_extraction |-> <<>>,
         context |-> [description |-> "", expected_output |-> ""]]]

TypeOK ==
    /\ active \subseteq Callers
    /\ DOMAIN pc = Callers /\ DOMAIN loc = Callers /\ DOMAIN calls = Callers
    /\ Len(history) <= MaxCalls + Cardinality(active) - 1

\* no call has begun
InitCalls(cs) ==
    /\ active = cs
    /\ pc = [c \in Callers |-> "idle"]
    /\ loc = [c \in Callers |-> IdleLoc]
    /\ calls = [c \in Callers |-> <<>>]
    /\ history = <<>>

\* no call has begun; the store is constructed over empty directories and
\* the connection without a connection string
InitCallers(cs) ==
    /\ InitCalls(cs)
    /\ store = MetaStore__init__({}, NoFile, NoFile)
    /\ db = DatabaseConnection__init__("")

InitMapper ==
    /\ InitCallers({1})
    /\ today = Date(2024, 3, 1)
    /\ \E e \in MapperEntities, t \in TableNames :
         /\ input = [query |-> EmptyQuery, table_name |-> t, entity |-> e]
         /\ \E sa \in SchemaAnswers, ha \in HeadAnswers, pa \in PairAnswers(e, t) :
              metastore = [tables |-> Catalog,
                           schema |-> (<<ColumnQuery(e), t>> :> sa),
                           heads |-> (<<Fmt(e.entity_value), t>> :> ha),
                           pairs |-> (PairQuery(e, t) :> pa),
                           relevant |-> <<>>]

NextMapper == \E c \in Callers : CallMap(c) \/ MapSteps(c)

SpecMapper == InitMapper /\ [][NextMapper]_vars

(***************************************************************************)
(* build_filters and enrich_query on the same query and provider           *)
(***************************************************************************)
\* the number of entities of a decomposed query
MaxEntities == 2

Mapped(e, column) == e @@ [mapped_column |-> column]

\* the entities a decomposed query is made of
QueryEntities ==
    {Entity("status", StrV("open")),
     Entity("amount", StrV("greater than 100")),
     Entity("severity", StrV("not critical")),
     Mapped(Entity("status", StrV("open")), "status"),
     Mapped(Entity("Status", StrV("open")), "no_such_column")}

RECURSIVE SeqsUpTo(_, _)
\* the sequences over S of length at most n
SeqsUpTo(S, n) ==
    IF n = 0 THEN {<<>>}
    ELSE LET shorter == SeqsUpTo(S, n - 1)
         IN shorter \cup {Append(q, x) : q \in {r \in shorter : Len(r) = n - 1}, x \in S}

Query(goal, entities, temporal) ==
    [query_decomposition |->
        [intent |-> [goal |-> goal], entity_extraction |-> entities,
         temporal_filtering |-> temporal,
         context |-> [description |-> "", expected_output |-> "the rows"]]]

\* how the provider answers the searches about entity e of table t, by the
\* kind of provider: one that knows the columns, one that only finds sample
\* values, one whose best hit is the table itself, one that finds nothing
Profiles == {"columns", "samples", "table", "nothing"}

SchemaFor(profile, e, t) ==
    IF profile = "columns" /\ e.entity_type \in {"status", "amount"}
    THEN <<Hit(e.entity_type, 90), Hit("created_at", 40)>>
    ELSE IF profile = "table" THEN <<Hit(t, 75)>>
    ELSE <<>>

HeadsFor(profile, value, t) ==
    IF profile = "samples" /\ value = "open"
    THEN <<[column_name |-> "status", score |-> 85]>>
    ELSE <<>>

\* the provider for the queries about the entities of U and table t
Provider(profile, U, t, table_hits, query, relevant) ==
    [tables |-> Catalog,
     schema |-> [k \in {<<ColumnQuery(e), t>> : e \in U} \cup {<<query, NoFilter>>} |->
                    IF k[2] = NoFilter THEN table_hits
                    ELSE SchemaFor(profile, CHOOSE e \in U : ColumnQuery(e) = k[1], t)],
     heads |-> [k \in {<<Fmt(e.entity_value), t>> : e \in U} |->
                    HeadsFor(profile, k[1], t)],
     pairs |-> <<>>,
     relevant |-> (<<t, "the rows">> :> relevant)]

\* the days "today" is drawn from: year and month boundaries, a leap day
Days ==
    {Date(2024, 3, 1), Date(2024, 1, 1), Date(2024, 1, 15), Date(2024, 2, 29),
     Date(2024, 12, 31), Date(2025, 3, 30), Date(2023, 3, 1)}

\* the temporal filters: absent, explicit bounds, relative expressions
Expressions ==
    {"today", "yesterday", "last week", "last month", "this year", "last year",
     "next sprint", "LAST WEEK", "Yesterday", "last week "}

Temporals ==
    {<<>>,
     [value |-> ListV(<<StrV("2024-01-01"), StrV("2024-01-31")>>),
      conditional_statement |-> "last week"],
     [value |-> ListV(<<StrV("2024-01-01")>>)],
     [value |-> StrV("2024-01-01")],
     [value |-> ListV(<<>>)],
     [value |-> ListV(<<StrV("2024-01-01"), StrV("2024-01-15"), StrV("2024-01-31")>>)],
     [value |-> IntV(2024)],
     [value |-> StrV("2024-01-01"), conditional_statement |-> "last year"],
     [value |-> ListV(<<>>), conditional_statement |-> "last week"]}
    \cup {[conditional_statement |-> x] : x \in Expressions}

NoEntity == Entity("", StrV(""))

\* queries that vary in their entities, on providers of every kind
InitEntityQueries ==
    /\ today = Date(2024, 3, 1)
    /\ \E es \in SeqsUpTo(QueryEntities, MaxEntities),
          t \in {"orders", "items"},
          profile \in Profiles :
         LET q == Query("retrieve_orders", es, [conditional_statement |-> "last month"])
         IN /\ input = [query |-> q, table_name |-> t, entity |-> NoEntity]
            /\ metastore =
                   Provider(profile, QueryEntities, t, <<Hit(t, 90)>>,
                            SearchQuery(q.query_decomposition), <<>>)

\* the tables a request is about
RequestTables == {"orders", "items", "events", "accounts", "tags", "ghost"}

\* the intent goals: retrieval, counting, aggregation, a goal that merely
\* contains count_, and none
Goals == {"retrieve_orders", "count_orders", "aggregate_sales", "discount_orders", ""}

\* the ranked answers of the table search, with table t ranked first
TableAnswers(t) ==
    {<<>>, <<Hit(t, 90)>>,
     <<Hit(t, 90), Hit("orders", 60), Hit("items", 50), Hit("ghost", 40)>>}

\* queries that vary in their goal and in what the table and relevant-column
\* searches find
InitRequests ==
    /\ today = Date(2024, 3, 1)
    /\ \E es \in {<<>>, <<Entity("status", StrV("open"))>>},
          t \in RequestTables,
          goal \in Goals,
          tf \in {<<>>, [conditional_statement |-> "last month"]},
          relevant \in {<<>>, <<Column("amount", "DECIMAL", FALSE)>>} :
       \E found \in TableAnswers(t) :
         LET q == Query(goal, es, tf)
         IN /\ input = [query |-> q, table_name |-> t, entity |-> NoEntity]
            /\ metastore =
                   Provider("columns", QueryEntities, t, found,
                            SearchQuery(q.query_decomposition), relevant)

\* queries that vary in their temporal filter and in the current date
InitTemporalQueries ==
    /\ today \in Days
    /\ \E es \in {<<>>, <<Entity("status", StrV("open"))>>},
          t \in {"orders", "items", "events"},
          tf \in Temporals :
         LET q == Query("retrieve_orders", es, tf) IN
         /\ input = [query |-> q, table_name |-> t, entity |-> NoEntity]
         /\ metastore =
                Provider("columns", QueryEntities, t, <<Hit(t, 90)>>,
                         SearchQuery(q.query_decomposition), <<>>)

\* the entity types and values the operator and the value normalisation are
\* exercised with: values with each negation prefix and each comparison
\* phrase, with and without a number, in both letter cases; a number
OperatorTypes ==
    {"status", "amount", "count", "limit", "threshold", "Priority", "colour"}

OperatorValues ==
    {StrV(x) : x \in {"greater than 100", "more than 20 or 30", "over 100",
                      "less than 7", "under 5", "below 12", "at least 3",
                      "minimum 2", "at most 10", "maximum 10", "not open",
                      "Not Open", "isn't done", "is not 5", "doesn't fit",
                      "does not fit", "not more than 5", "open", "Over 9",
                      "greater than ten", "overdue", "notable", "1 to 5",
                      "red, blue"}}
    \cup {IntV(5), IntV(0)}

\* the text of the table search for a decomposition: the goal and the entity
\* types and values, numbers in their decimal form
QueryText(decomp) ==
    LET words == EntityWords(Get(decomp, "entity_extraction", <<>>))
    IN Get(Get(decomp, "intent", <<>>), "goal", "")
       \o " " \o Join([k \in DOMAIN words |-> Fmt(words[k])], " ")

\* queries of one entity whose column is pre-supplied
InitOperatorQueries ==
    /\ today = Date(2024, 3, 1)
    /\ \E type \in OperatorTypes, value \in OperatorValues :
         LET q == Query("retrieve_orders",
                        <<Mapped(Entity(type, value), "amount")>>, <<>>)
         IN /\ input = [query |-> q, table_name |-> "orders", entity |-> NoEntity]
            /\ metastore =
                   Provider("nothing", {}, "orders", <<Hit("orders", 90)>>,
                            QueryText(q.query_decomposition), <<>>)

InitFilters ==
    /\ InitCallers({1})
    /\ \/ InitEntityQueries
       \/ InitRequests
       \/ InitTemporalQueries
       \/ InitOperatorQueries

NextFilters ==
    \E c \in Callers :
        \/ CallBuildFilters(c)
        \/ CallEnrich(c)
        \/ BuildSteps(c)
        \/ MapSteps(c)
        \/ EnrichSteps(c)

SpecFilters == InitFilters /\ [][NextFilters]_vars

(***************************************************************************)
(* enrich_query called by two callers at once, on one provider             *)
(***************************************************************************)
\* the queries the two callers pass, each with its primary table: a
\* retrieval, a count with a pre-supplied column, a query whose entity
\* cannot be resolved
ConcurrentQueries ==
    {<<Query("retrieve_orders", <<Entity("status", StrV("open"))>>,
             [conditional_statement |-> "last month"]), "orders">>,
     <<Query("count_orders", <<Mapped(Entity("status", StrV("open")), "State")>>, <<>>),
       "items">>,
     <<Query("retrieve_orders", <<Entity("severity", StrV("not critical"))>>, <<>>),
       "orders">>}

\* one provider that holds what the providers p and q hold
BothProviders(p, q) ==
    [tables |-> Catalog, schema |-> p.schema @@ q.schema, heads |-> p.heads @@ q.heads,
     pairs |-> <<>>, relevant |-> p.relevant @@ q.relevant]

ProviderFor(qt) ==
    Provider("columns", QueryEntities, qt[2], <<Hit(qt[2], 90)>>,
             QueryText(qt[1].query_decomposition), <<>>)

InitConcurrent ==
    /\ InitCallers({1, 2})
    /\ today = Date(2024, 3, 1)
    /\ \E a \in ConcurrentQueries, b \in ConcurrentQueries :
         /\ input = [query |-> a[1], table_name |-> a[2], entity |-> NoEntity,
                     queries |-> [c \in Callers |-> IF c = 1 THEN a[1] ELSE b[1]]]
         /\ metastore = BothProviders(ProviderFor(a), ProviderFor(b))

NextConcurrent == \E c \in Callers : CallEnrich(c) \/ EnrichSteps(c)

SpecConcurrent == InitConcurrent /\ [][NextConcurrent]_vars

(***************************************************************************)
(* _process_filter_value on values and operators of every kind             *)
(***************************************************************************)
\* the raw values: lists, comma-separated and plain strings, ranges, numbers
RawValues ==
    {ListV(<<>>), ListV(<<IntV(1)>>), ListV(<<StrV("a"), StrV("b")>>),
     ListV(<<StrV("a , b"), StrV(" c"), IntV(3)>>), IntV(7), IntV(0)}
    \cup {StrV(x) : x \in {"red, blue, green", "red,blue", " red ,, blue ", ",",
                            "red", " red ", "", "1 to 5", "1 TO 5", "a to b to c",
                            "2024-01-01 - 2024-02-01", "not open",
                            "greater than 100"}}

Operators == {"IN", "BETWEEN", "=", "!=", ">", "LIKE"}

InitValues ==
    /\ InitCallers({1})
    /\ today = Date(2024, 3, 1)
    /\ metastore = [tables |-> Catalog, schema |-> <<>>, heads |-> <<>>,
                    pairs |-> <<>>, relevant |-> <<>>]
    /\ \E v \in RawValues, op \in Operators :
           input = [query |-> EmptyQuery, table_name |-> "", entity |-> NoEntity,
                    value |-> v, operator |-> op]

NextValues == \E c \in Callers : CallProcessValue(c) \/ ProcessValue(c)

SpecValues == InitValues /\ [][NextValues]_vars

(***************************************************************************)
(* _validate_contextual_data on records of every shape                     *)
(***************************************************************************)
\* records that have every required field, non-empty
CompleteRecords ==
    {[intent |-> "retrieve_orders",
      context |-> [description |-> "", expected_output |-> "the rows"],
      filters |-> <<Filter("status", "status", "=", StrV("open"))>>,
      table_metadata |-> [primary_table |-> "orders", table_description |-> "",
                          table_fields |-> [status |-> "VARCHAR"]],
      output_columns |-> <<OutputColumn(Column("status", "VARCHAR", FALSE), "Status")>>],
     [intent |-> "count_orders",
      context |-> [description |-> "how many"],
      filters |-> <<Filter("date_range", "created_at", "BETWEEN", ListV(<<>>)),
                    Filter("amount", "amount", ">", IntV(0))>>,
      table_metadata |-> [primary_table |-> "orders"],
      output_columns |-> <<OutputColumn(Column("order_id", "INTEGER", TRUE), "Order Id"),
                           OutputColumn(Column("amount", "DECIMAL", FALSE), "Amount")>>],
     [intent |-> "x",
      context |-> [expected_output |-> ""],
      filters |-> <<Filter("", "", "", StrV(""))>>,
      table_metadata |-> [primary_table |-> "t", table_fields |-> <<>>],
      output_columns |-> <<OutputColumn(Column("", "", FALSE), "")>>,
      note |-> "extra"]}

\* the fields of a ContextualData record
RecordFields == {"intent", "context", "filters", "table_metadata", "output_columns"}

\* record r without field f
Without(r, f) == [k \in DOMAIN r \ {f} |-> r[k]]

\* record r with field f emptied: "" for the intent, the empty dict or list
\* for the others
Emptied(r, f) == [r EXCEPT ![f] = IF f = "intent" THEN "" ELSE <<>>]

\* the records validation is applied to: complete ones, and those obtained
\* from a complete one by removing or emptying one field or the primary table
ValidationRecords ==
    CompleteRecords
    \cup {Without(r, f) : r \in CompleteRecords, f \in RecordFields}
    \cup {Emptied(r, f) : r \in CompleteRecords, f \in RecordFields}
    \cup {[r EXCEPT !.table_metadata = Without(r.table_metadata, "primary_table")] :
              r \in {x \in CompleteRecords : DOMAIN x.table_metadata # {"primary_table"}}}
    \cup {[r EXCEPT !.table_metadata.primary_table = ""] : r \in CompleteRecords}

InitValidate ==
    /\ InitCallers({1})
    /\ today = Date(2024, 3, 1)
    /\ metastore = [tables |-> Catalog, schema |-> <<>>, heads |-> <<>>,
                    pairs |-> <<>>, relevant |-> <<>>]
    /\ \E r \in ValidationRecords :
           input = [query |-> EmptyQuery, table_name |-> "", entity |-> NoEntity,
                    contextual_data |-> r]

NextValidate == \E c \in Callers : CallValidate(c) \/ EnrichValidate(c)

SpecValidate == InitValidate /\ [][NextValidate]_vars

(***************************************************************************)
(* The store indexed, saved, reloaded and searched while the schema        *)
(* directory is rewritten                                                  *)
(***************************************************************************)
SchemaColumn(name, type) == [name |-> name, type |-> type]

SchemaFile(file, data) == [file |-> file, content |-> FileOf(data)]

OrdersFile ==
    SchemaFile("orders_schema.json",
               [table_name |-> "orders",
                columns |-> <<SchemaColumn("order_id", "INTEGER"),
                              SchemaColumn("status", "VARCHAR")>>])

\* the orders table after a migration: a column without a name, a foreign
\* key, and a foreign key without columns
OrdersWide ==
    SchemaFile("orders_schema.json",
               [table_name |-> "orders",
                columns |-> <<SchemaColumn("order_id", "INTEGER"),
                              [type |-> "TEXT"],
                              SchemaColumn("customer_id", "INTEGER")>>,
                foreign_keys |->
                    <<[constrained_columns |-> <<"customer_id">>,
                       referred_table |-> "customers",
                       referred_columns |-> <<"id">>],
                      [referred_table |-> "customers"]>>])

ItemsFile ==
    SchemaFile("items_schema.json",
               [table_name |-> "items",
                columns |-> <<SchemaColumn("item_id", "INTEGER")>>])

\* files index_schema_data passes over: the complete schema, a table
\* without a name; and a file that is no JSON
CompleteFile == SchemaFile("complete_schema.json", [table_name |-> "all"])

UnnamedFile == SchemaFile("draft_schema.json", [columns |-> <<>>])

BrokenFile == [file |-> "broken_schema.json", content |-> CorruptFile]

SchemaDirs ==
    {{}, {OrdersFile}, {OrdersWide, ItemsFile}, {OrdersFile, BrokenFile},
     {ItemsFile, CompleteFile, UnnamedFile}}

\* the schema directory is rewritten by the schema extraction
WriteSchemaDir ==
    /\ StoreCanCall
    /\ \E dir \in SchemaDirs \ {store.schema_dir} :
         store' = [store EXCEPT !.schema_dir = dir]
    /\ StoreDone("schema_dir", Returned(TRUE), <<>>)

InitStore ==
    /\ InitCalls({1})
    /\ today = Date(2024, 3, 1)
    /\ input = [query |-> EmptyQuery, table_name |-> "", entity |-> NoEntity]
    /\ metastore = [tables |-> Catalog, schema |-> <<>>, heads |-> <<>>,
                    pairs |-> <<>>, relevant |-> <<>>]
    /\ db = DatabaseConnection__init__("")
    /\ \E dir \in SchemaDirs : store = MetaStore__init__(dir, NoFile, NoFile)

NextStore ==
    \/ Construct
    \/ IndexSchemaData
    \/ SaveIndices
    \/ SearchSchema
    \/ WriteSchemaDir

SpecStore == InitStore /\ [][NextStore]_vars

(***************************************************************************)
(* The connection connected and queried while the database comes and goes *)
(***************************************************************************)
ConnectionStrings == {"", "postgresql://localhost/shop", "shop"}

InitDb ==
    /\ InitCalls({1})
    /\ today = Date(2024, 3, 1)
    /\ input = [query |-> EmptyQuery, table_name |-> "", entity |-> NoEntity]
    /\ metastore = [tables |-> Catalog, schema |-> <<>>, heads |-> <<>>,
                    pairs |-> <<>>, relevant |-> <<>>]
    /\ store = MetaStore__init__({}, NoFile, NoFile)
    /\ \E cs \in ConnectionStrings : db = DatabaseConnection__init__(cs)

NextDb ==
    \/ Connect
    \/ GetTables
    \/ GetSchemaInfo
    \/ ExecuteQuery

SpecDb == InitDb /\ [][NextDb]_vars

(***************************************************************************)
(* Claims about SchemaMapper.map_entity_to_column (SpecMapper)             *)
(***************************************************************************)
\* the completed calls of map_entity_to_column
MapRuns == {k \in DOMAIN history : history[k].op = "map_entity_to_column"}

\* what the provider answers to the three searches about entity e of table t
ColumnHitsOf(e, t) == Lookup(metastore.schema, <<ColumnQuery(e), t>>)

SampleHitsOf(e, t) == Lookup(metastore.heads, <<Fmt(e.entity_value), t>>)

SimilarPairsOf(e, t) == Lookup(metastore.pairs, PairQuery(e, t))

\* a prior-query mapping for the entity type and table exists
HasPairMappingOf(e, t) ==
    LET pairs == Take(SimilarPairsOf(e, t), 3) IN
    \E p \in DOMAIN pairs :
        \E m \in DOMAIN Get(pairs[p], "entity_mappings", <<>>) :
            LET mapping == pairs[p].entity_mappings[m] IN
            /\ Get(mapping, "entity_type", None) = e.entity_type
            /\ Get(mapping, "table", None) = t

\* a column name of the table contains a heuristic pattern of the entity type
HasHeuristicColumnOf(e, t) ==
    LET meta == Lookup(metastore.tables, t)
        type == Lower(e.entity_type)
        patterns == IF type \in DOMAIN pattern_map THEN pattern_map[type] ELSE <<type>>
    IN /\ DOMAIN meta # {}
       /\ \E i \in DOMAIN meta.columns :
              \E j \in DOMAIN patterns : Contains(Lower(meta.columns[i].name), patterns[j])

\* all five stages are exhausted for entity e of table t
ExhaustedOf(e, t) ==
    /\ ColumnHitsOf(e, t) = <<>>
    /\ ~(SampleHitsOf(e, t) # <<>> /\ Get(SampleHitsOf(e, t)[1], "score", 0) > 80)
    /\ ~HasPairMappingOf(e, t)
    /\ ~HasHeuristicColumnOf(e, t)

ColumnHits == ColumnHitsOf(input.entity, input.table_name)

SampleHits == SampleHitsOf(input.entity, input.table_name)

TopColumnScore == Get(ColumnHits[1], "score", 0)

TopSampleScore == Get(SampleHits[1], "score", 0)

HasPairMapping == HasPairMappingOf(input.entity, input.table_name)

Exhausted == ExhaustedOf(input.entity, input.table_name)

IsPrefix(a, b) == Len(a) <= Len(b) /\ SubSeq(b, 1, Len(a)) = a

SameOutcome(a, b) == a.kind = b.kind /\ a.value = b.value

\* C5: the best column-metadata candidate is returned at stage 1 only when its
\* score is strictly greater than 0.7; at a score of 0.7 or less (0.7 itself
\* included) the sample-value search is consulted next.
C5_Stage1Exclusive ==
    \A k \in MapRuns :
        LET h == history[k] IN
        /\ (h.calls = <<"search_schema">>)
               <=> (ColumnHits # <<>> /\ TopColumnScore > 70)
        /\ (ColumnHits # <<>> /\ TopColumnScore > 70)
               => SameOutcome(h.outcome,
                              Returned(<<ColumnHits[1].name, TopColumnScore>>))
        /\ (ColumnHits # <<>> /\ TopColumnScore = 70)
               => Len(h.calls) >= 2 /\ h.calls[2] = "search_table_heads"

\* a completed run whose best column-metadata score is exactly 0.7
C5_Witness ==
    \E k \in MapRuns :
        /\ ColumnHits # <<>> /\ TopColumnScore = 70
        /\ history[k].calls[2] = "search_table_heads"

CascadeOrder ==
    <<"search_schema", "search_table_heads", "find_similar_sql_pairs",
      "get_table_metadata">>

\* the number of provider calls a run makes, from the stage that accepts
ExpectedCalls ==
    IF ColumnHits # <<>> /\ TopColumnScore > 70 THEN 1
    ELSE IF SampleHits # <<>> /\ TopSampleScore > 80 THEN 2
    ELSE IF HasPairMapping \/ ColumnHits # <<>> THEN 3
    ELSE 4

\* C6: the provider is consulted in the order search_schema,
\* search_table_heads, find_similar_sql_pairs, get_table_metadata, and after a
\* stage has accepted a result no later provider call is made.
C6_CascadeOrder ==
    /\ \A c \in Callers :
           loc[c].op = "map_entity_to_column" => IsPrefix(calls[c], CascadeOrder)
    /\ \A k \in MapRuns :
           history[k].calls = SubSeq(CascadeOrder, 1, ExpectedCalls)

\* a run accepted at stage 1 that made no later provider call
C6_Witness ==
    \E k \in MapRuns :
        /\ ColumnHits # <<>> /\ TopColumnScore > 70
        /\ history[k].calls = <<"search_schema">>

\* C7: map_entity_to_column raises the unresolvable-entity error exactly when
\* all five stages are exhausted, and returns a (column, confidence) pair in
\* every other case.
C7_FailsIffExhausted ==
    \A k \in MapRuns :
        LET o == history[k].outcome IN
        /\ Exhausted <=> SameOutcome(o, UnresolvableEntity)
        /\ ~Exhausted => IsReturn(o) /\ Len(o.value) = 2

\* a run that raised because every stage was exhausted
C7_Witness ==
    \E k \in MapRuns : Exhausted /\ IsRaise(history[k].outcome)

SampleAccepts == SampleHits # <<>> /\ TopSampleScore > 80

\* the run ended in the heuristic stage
ReachedHeuristic(k) ==
    Len(history[k].calls) = 4 /\ history[k].calls[4] = "get_table_metadata"

\* C22: when the column-metadata search returned a candidate and neither the
\* sample-value stage nor the prior-query stage accepts, the run returns the
\* top candidate of that search with its own score (0 for a candidate that
\* carries no score) and never consults the table metadata; so a run ends in
\* the heuristic stage only when the column-metadata search returned nothing.
C22_DegradedAcceptance ==
    \A k \in MapRuns :
        LET h == history[k] IN
        /\ (ColumnHits # <<>> /\ ~SampleAccepts /\ ~HasPairMapping) =>
               /\ SameOutcome(h.outcome,
                              Returned(<<ColumnHits[1].name, TopColumnScore>>))
               /\ \A i \in DOMAIN h.calls : h.calls[i] # "get_table_metadata"
        /\ ReachedHeuristic(k) => ColumnHits = <<>>

\* a run that returned a candidate scored 0.7 or less although a column of the
\* table matches the heuristic patterns of the entity type
C22_Witness ==
    \E k \in MapRuns :
        /\ ColumnHits # <<>> /\ TopColumnScore <= 70
        /\ ~SampleAccepts /\ ~HasPairMapping
        /\ HasHeuristicColumnOf(input.entity, input.table_name)
        /\ IsReturn(history[k].outcome)
        /\ history[k].outcome.value[2] = TopColumnScore
        /\ Len(history[k].calls) = 3

\* the columns of the requested table, in table order
TableColumns == Get(Lookup(metastore.tables, input.table_name), "columns", <<>>)

\* the heuristic patterns of the requested entity type
TypePatterns ==
    LET type == Lower(input.entity.entity_type) IN
    IF type \in DOMAIN pattern_map THEN pattern_map[type] ELSE <<type>>

\* the positions of the columns whose lowercased name contains a pattern
PatternColumns ==
    {i \in DOMAIN TableColumns :
        \E j \in DOMAIN TypePatterns :
            Contains(Lower(TableColumns[i].name), TypePatterns[j])}

\* C23: a run that reaches the heuristic stage returns the earliest column in
\* table order whose lowercased name contains a pattern of the entity type
\* (the lowercased type itself for a type without a pattern list), under its
\* original name and with confidence 0.6, and has no match, so raises, when no
\* column contains a pattern.
C23_Heuristic ==
    \A k \in MapRuns :
        ReachedHeuristic(k) =>
            IF PatternColumns = {}
            THEN SameOutcome(history[k].outcome, UnresolvableEntity)
            ELSE LET i == CHOOSE m \in PatternColumns :
                              \A n \in PatternColumns : m <= n
                 IN SameOutcome(history[k].outcome,
                                Returned(<<TableColumns[i].name, 60>>))

\* a heuristic run that returned a column with capitals in its name, placed
\* before another column that contains an earlier pattern
C23_Witness ==
    \E k \in MapRuns :
        /\ ReachedHeuristic(k)
        /\ IsReturn(history[k].outcome)
        /\ history[k].outcome.value[1] # Lower(history[k].outcome.value[1])
        /\ \E i \in PatternColumns :
               /\ TableColumns[i].name # history[k].outcome.value[1]
               /\ Contains(Lower(TableColumns[i].name), TypePatterns[1])
               /\ ~Contains(Lower(history[k].outcome.value[1]), TypePatterns[1])

\* the similar pairs the prior-query stage looks at
SimilarPairs == Take(SimilarPairsOf(input.entity, input.table_name), 3)

\* the positions <<pair, mapping>> of the mappings stored for the requested
\* entity type and table
MatchingMappings ==
    UNION {{<<p, m>> : m \in
               {n \in DOMAIN Get(SimilarPairs[p], "entity_mappings", <<>>) :
                   LET mapping == SimilarPairs[p].entity_mappings[n] IN
                   /\ Get(mapping, "entity_type", None) = input.entity.entity_type
                   /\ Get(mapping, "table", None) = input.table_name}} :
           p \in DOMAIN SimilarPairs}

Earlier(a, b) == a[1] < b[1] \/ (a[1] = b[1] /\ a[2] <= b[2])

\* C24: a run that reaches the prior-query stage returns the first mapping, in
\* pair order and then stored order, whose entity_type and table are the
\* requested ones, with the mapping's confidence or 0.7 when it stores none,
\* however low it is; with no such mapping the stage accepts nothing and the
\* run goes on to the degraded and heuristic stages.
C24_PriorQuery ==
    \A k \in MapRuns :
        LET h == history[k] IN
        Len(h.calls) >= 3 =>
            IF MatchingMappings # {}
            THEN LET pm == CHOOSE a \in MatchingMappings :
                               \A b \in MatchingMappings : Earlier(a, b)
                     mapping == SimilarPairs[pm[1]].entity_mappings[pm[2]]
                 IN /\ Len(h.calls) = 3
                    /\ SameOutcome(h.outcome,
                           Returned(<<Get(mapping, "column", None),
                                      Get(mapping, "confidence", 70)>>))
            ELSE IF ColumnHits # <<>>
            THEN SameOutcome(h.outcome,
                             Returned(<<ColumnHits[1].name, TopColumnScore>>))
            ELSE ReachedHeuristic(k)

\* a run that accepted a prior-query mapping stored with confidence 0.4
C24_Witness ==
    \E k \in MapRuns :
        /\ Len(history[k].calls) = 3
        /\ MatchingMappings # {}
        /\ IsReturn(history[k].outcome)
        /\ history[k].outcome.value[2] = 40

\* C27: whenever map_entity_to_column returns, the column of the returned pair
\* is a present, non-empty name and its confidence is a number, whichever
\* stage accepted.
C27_ColumnPresent ==
    \A k \in MapRuns :
        LET o == history[k].outcome IN
        IsReturn(o) =>
            /\ o.value[1] # None
            /\ o.value[1] # ""
            /\ o.value[2] \in Int

(***************************************************************************)
(* Claims about build_filters and enrich_query (SpecFilters)               *)
(***************************************************************************)
\* the completed calls of enrich_query and of build_filters
EnrichRuns == {k \in DOMAIN history : history[k].op = "enrich_query"}

BuildRuns == {k \in DOMAIN history : history[k].op = "build_filters"}

QueryEntitiesOf == Get(Decomp, "entity_extraction", <<>>)

QueryTemporal == Get(Decomp, "temporal_filtering", <<>>)

\* the temporal filter is given only by a conditional_statement
OnlyConditional ==
    /\ "conditional_statement" \in DOMAIN QueryTemporal
    /\ QueryTemporal.conditional_statement # ""
    /\ ("value" \in DOMAIN QueryTemporal => ~Truthy(QueryTemporal.value))

Iso(d) == StrV(IsoFormat(d))

\* the column names of table t, in table order
ColumnNames(t) ==
    LET columns == Get(Lookup(metastore.tables, t), "columns", <<>>)
    IN [k \in DOMAIN columns |-> columns[k].name]

Range(f) == {f[x] : x \in DOMAIN f}

\* the scenario of C1; the column search resolves the entity to status
C1_Scenario ==
    /\ Goal = "retrieve_orders"
    /\ Len(search_schema("status open", "orders", 3)) > 0
    /\ search_schema("status open", "orders", 3)[1].name = "status"
    /\ QueryEntitiesOf = <<Entity("status", StrV("open"))>>
    /\ QueryTemporal = [conditional_statement |-> "last month"]
    /\ ColumnNames("orders") = <<"order_id", "status", "created_at", "amount">>
    /\ get_relevant_columns("orders", Decomp.context.expected_output) = <<>>

\* C1: in the end-to-end scenario enrich returns the filters
\* [status = 'open', created_at BETWEEN [today-30d, today]] in that order and
\* all four columns as output columns; and whenever the temporal filter is
\* given only by a conditional_statement, the date_range filter of the
\* returned record carries the resolved dates, not an empty value.
C1_EndToEnd ==
    \A k \in EnrichRuns :
        LET o == history[k].outcome IN
        IsReturn(o) =>
            /\ (C1_Scenario /\ o.value.table_metadata.primary_table = "orders")
                   => /\ o.value.filters =
                            <<Filter("status", "status", "=", StrV("open")),
                              Filter("date_range", "created_at", "BETWEEN",
                                     ListV(<<Iso(MinusDays(today, 30)), Iso(today)>>))>>
                      /\ [i \in DOMAIN o.value.output_columns |->
                             o.value.output_columns[i].column_name]
                            = <<"order_id", "status", "created_at", "amount">>
            /\ OnlyConditional
                   => \A i \in DOMAIN o.value.filters :
                          o.value.filters[i].filter_name = "date_range"
                              => Truthy(o.value.filters[i].value)

\* C2: the filters of the record enrich returns equal, element by element,
\* the list build_filters returns for the same entities, temporal filter and
\* primary table.
C2_EnrichDelegates ==
    \A j \in EnrichRuns, k \in BuildRuns :
        LET e == history[j].outcome
            b == history[k].outcome
        IN (IsReturn(e) /\ e.value.table_metadata.primary_table = input.table_name)
               => IsReturn(b) /\ e.value.filters = b.value

\* entity e of table t yields a filter in build_filters: its type and value
\* are given and its column is pre-supplied or some stage resolves it
Resolvable(e, t) ==
    /\ Get(e, "entity_type", "") # ""
    /\ Truthy(Get(e, "entity_value", StrV("")))
    /\ TruthyStr(Get(e, "mapped_column", "")) \/ ~ExhaustedOf(e, t)

HasDateColumn(t) ==
    LET columns == Get(Lookup(metastore.tables, t), "columns", <<>>)
    IN \E i \in DOMAIN columns :
           \/ ContainsAny(Upper(columns[i].data_type), date_types)
           \/ ContainsAny(Lower(columns[i].name), date_patterns)

\* the filter names build_filters is to produce: one per resolvable entity,
\* in entity order, then date_range when there is a temporal filter and a
\* date column
ExpectedFilterNames(t) ==
    LET kept == SelectSeq(QueryEntitiesOf, LAMBDA e : Resolvable(e, t))
    IN [i \in DOMAIN kept |-> kept[i].entity_type]
       \o (IF TruthyDict(QueryTemporal) /\ HasDateColumn(t)
           THEN <<"date_range">> ELSE <<>>)

\* build_filters alone is best-effort per entity
C3_BuildFiltersBestEffort ==
    \A k \in BuildRuns :
        LET o == history[k].outcome IN
        /\ IsReturn(o)
        /\ [i \in DOMAIN o.value |-> o.value[i].filter_name]
               = ExpectedFilterNames(input.table_name)

\* C3: an entity whose column resolution fails only loses its own filter;
\* the other filters are produced and the request is not aborted, in
\* build_filters and in enrich.
C3_BestEffort ==
    /\ C3_BuildFiltersBestEffort
    /\ \A k \in EnrichRuns : ~SameOutcome(history[k].outcome, UnresolvableEntity)

\* C4: every filter of a returned record or list names a column of the
\* primary table's column metadata.
C4_ColumnsExist ==
    /\ \A k \in BuildRuns :
           IsReturn(history[k].outcome) =>
               \A i \in DOMAIN history[k].outcome.value :
                   history[k].outcome.value[i].column_name
                       \in Range(ColumnNames(input.table_name))
    /\ \A k \in EnrichRuns :
           IsReturn(history[k].outcome) =>
               LET record == history[k].outcome.value IN
               \A i \in DOMAIN record.filters :
                   record.filters[i].column_name
                       \in Range(ColumnNames(record.table_metadata.primary_table))

TableExpressions ==
    {"today", "yesterday", "last week", "last month", "this year", "last year"}

\* the operator and value the expression table gives on the current date
TableEntry(expression) ==
    CASE expression = "today" -> <<"=", Iso(today)>>
      [] expression = "yesterday" -> <<"=", Iso(MinusDays(today, 1))>>
      [] expression = "last week" ->
            <<"BETWEEN", ListV(<<Iso(MinusDays(today, 7)), Iso(today)>>)>>
      [] expression = "last month" ->
            <<"BETWEEN", ListV(<<Iso(MinusDays(today, 30)), Iso(today)>>)>>
      [] expression = "this year" ->
            <<"BETWEEN", ListV(<<StrV(Pad(today.year, 4) \o "-01-01"), Iso(today)>>)>>
      [] expression = "last year" ->
            <<"BETWEEN", ListV(<<StrV(Pad(today.year - 1, 4) \o "-01-01"),
                                 StrV(Pad(today.year - 1, 4) \o "-12-31")>>)>>

\* the last filter of a list, <<>> when the list is empty
LastFilter(filters) == IF Len(filters) = 0 THEN <<>> ELSE filters[Len(filters)]

\* C9: with no explicit value and a table that has a date column, each of the
\* six table expressions gives the filter of the expression table: today and
\* yesterday a single date with '=', last week [today-7d, today], last month
\* [today-30d, today], this year [Jan 1, today], last year [Jan 1, Dec 31 of
\* the previous year], each with BETWEEN.
C9_ExpressionTable ==
    \A k \in BuildRuns :
        LET o == history[k].outcome IN
        (/\ OnlyConditional
         /\ QueryTemporal.conditional_statement \in TableExpressions
         /\ HasDateColumn(input.table_name))
            => /\ IsReturn(o)
               /\ LET f == LastFilter(o.value)
                      entry == TableEntry(QueryTemporal.conditional_statement)
                  IN /\ f # <<>>
                     /\ f.filter_name = "date_range"
                     /\ f.operator = entry[1]
                     /\ f.value = entry[2]
               /\ (today = Date(2024, 3, 1)
                   /\ QueryTemporal.conditional_statement = "last week")
                      => LastFilter(o.value).value
                             = ListV(<<StrV("2024-02-23"), StrV("2024-03-01")>>)
               /\ (today = Date(2024, 1, 15)
                   /\ QueryTemporal.conditional_statement = "last month")
                      => LastFilter(o.value).value
                             = ListV(<<StrV("2023-12-16"), StrV("2024-01-15")>>)

\* a completed build_filters on 'last year' whose filter is the previous
\* year's first and last day
C9_Witness ==
    \E k \in BuildRuns :
        /\ OnlyConditional
        /\ QueryTemporal.conditional_statement = "last year"
        /\ today = Date(2024, 2, 29)
        /\ IsReturn(history[k].outcome)
        /\ LastFilter(history[k].outcome.value) # <<>>
        /\ LastFilter(history[k].outcome.value).value
               = ListV(<<StrV("2023-01-01"), StrV("2023-12-31")>>)

\* C10: a non-empty conditional_statement that is not one of the six table
\* expressions (letter case aside), with no explicit value, raises no error
\* and gives the date_range filter BETWEEN [today-30d, today].
C10_UnknownExpression ==
    \A k \in BuildRuns :
        LET o == history[k].outcome IN
        (/\ OnlyConditional
         /\ Lower(QueryTemporal.conditional_statement) \notin TableExpressions)
            => /\ IsReturn(o)
               /\ HasDateColumn(input.table_name)
                      => LET f == LastFilter(o.value) IN
                         /\ f # <<>>
                         /\ f.filter_name = "date_range"
                         /\ f.operator = "BETWEEN"
                         /\ f.value = ListV(<<Iso(MinusDays(today, 30)), Iso(today)>>)

\* a completed build_filters on 'next sprint' with the 30-day window
C10_Witness ==
    \E k \in BuildRuns :
        /\ QueryTemporal = [conditional_statement |-> "next sprint"]
        /\ IsReturn(history[k].outcome)
        /\ LastFilter(history[k].outcome.value) # <<>>
        /\ LastFilter(history[k].outcome.value).operator = "BETWEEN"

\* the intent goal asks for a count or an aggregate
CountingGoal == StartsWith(Goal, "count_") \/ StartsWith(Goal, "aggregate_")

\* the names of the output columns of a returned record
OutputNames(record) ==
    [i \in DOMAIN record.output_columns |-> record.output_columns[i].column_name]

\* the names of the primary-key and *id*-named columns of table t, in table
\* order; the name is compared without regard to letter case
KeyColumnNames(t) ==
    LET columns == Get(Lookup(metastore.tables, t), "columns", <<>>)
        kept == SelectSeq(columns, LAMBDA col : col.is_primary_key
                                                  \/ Contains(Lower(col.name), "id"))
    IN [i \in DOMAIN kept |-> kept[i].name]

\* C11: when the intent goal begins with count_ or aggregate_, the output
\* columns of the returned record are exactly the primary-key and *id*-named
\* columns of the primary table, in table order, and the relevant-column
\* search of the provider is not consulted by the call.
C11_KeyColumnsOnly ==
    \A k \in EnrichRuns :
        LET h == history[k] IN
        CountingGoal =>
            /\ \A i \in DOMAIN h.calls : h.calls[i] # "get_relevant_columns"
            /\ IsReturn(h.outcome) =>
                   OutputNames(h.outcome.value)
                       = KeyColumnNames(h.outcome.value.table_metadata.primary_table)

\* a count on accounts, whose relevant-column search would surface amount:
\* the record has the key column and the two *id*-named columns only
C11_Witness ==
    \E k \in EnrichRuns :
        /\ Goal = "count_orders"
        /\ get_relevant_columns("accounts", "the rows") # <<>>
        /\ IsReturn(history[k].outcome)
        /\ OutputNames(history[k].outcome.value) = <<"code", "Owner_ID", "paid_on">>

(***************************************************************************)
(* Claims about _validate_contextual_data (SpecValidate)                   *)
(***************************************************************************)
ValidateRuns == {k \in DOMAIN history : history[k].op = "_validate_contextual_data"}

\* field f of record r is present and non-empty
Filled(r, f) ==
    /\ f \in DOMAIN r
    /\ IF f \in {"intent", "primary_table"} THEN r[f] # "" ELSE DOMAIN r[f] # {}

\* every required field of r is present and non-empty, and the primary table
\* is set
IsComplete(r) ==
    /\ \A f \in RecordFields : Filled(r, f)
    /\ Filled(r.table_metadata, "primary_table")

\* C12: a record that has intent, context, filters, table_metadata and
\* output_columns present and non-empty and the primary table set passes
\* validation and is the same record afterwards; a record with one of them
\* removed or emptied makes validation raise its error.
C12_Validation ==
    \A k \in ValidateRuns :
        LET o == history[k].outcome
            r == input.contextual_data
        IN /\ IsComplete(r) => SameOutcome(o, Returned(r))
           /\ ~IsComplete(r) => IsRaise(o) /\ o.value.exc = "ValueError"

\* validation of a record whose filters were emptied has raised
C12_Witness ==
    \E k \in ValidateRuns :
        /\ "filters" \in DOMAIN input.contextual_data
        /\ input.contextual_data.filters = <<>>
        /\ \A f \in {"intent", "context", "table_metadata", "output_columns"} :
               Filled(input.contextual_data, f)
        /\ IsRaise(history[k].outcome)

\* the comparison phrases and their operators
ComparisonPhrases ==
    [p \in {"greater than", "more than", "over"} |-> ">"]
    @@ [p \in {"less than", "under", "below"} |-> "<"]
    @@ [p \in {"at least", "minimum"} |-> ">="]
    @@ [p \in {"at most", "maximum"} |-> "<="]

\* the phrases the string s begins with
PhrasesOf(s) == {p \in DOMAIN ComparisonPhrases : StartsWith(s, p)}

\* the query has the single entity e
SingleEntity(e) == QueryEntitiesOf = <<e>>

\* C13: an entity whose string value begins with a comparison phrase and
\* contains a number gets, in build_filters, a filter with the operator of the
\* phrase and the first number of the value, as an integer, as its value.
C13_ComparisonPhrases ==
    \A k \in BuildRuns :
        \A e \in {x \in Range(QueryEntitiesOf) :
                      /\ IsStr(x.entity_value)
                      /\ PhrasesOf(x.entity_value.s) # {}
                      /\ FirstNumber(x.entity_value.s) # ""} :
            LET o == history[k].outcome IN
            SingleEntity(e) =>
                /\ IsReturn(o)
                /\ \A i \in DOMAIN o.value :
                       o.value[i].filter_name = e.entity_type =>
                           /\ \A p \in PhrasesOf(e.entity_value.s) :
                                  o.value[i].operator = ComparisonPhrases[p]
                           /\ o.value[i].value
                                  = IntV(ParseInt(FirstNumber(e.entity_value.s), 0))

(***************************************************************************)
(* Claims about _process_filter_value (SpecValues)                         *)
(***************************************************************************)
ValueRuns == {k \in DOMAIN history : history[k].op = "_process_filter_value"}

\* the trimmed items of the comma-separated strings, in order
CommaItems ==
    [x \in {"red, blue, green"} |-> <<"red", "blue", "green">>]
    @@ [x \in {"red,blue"} |-> <<"red", "blue">>]
    @@ [x \in {" red ,, blue "} |-> <<"red", "", "blue">>]
    @@ [x \in {","} |-> <<"", "">>]

\* C14: with operator IN, _process_filter_value returns a sequence unchanged,
\* turns a comma-separated string into the sequence of its trimmed items in
\* order, and wraps any other value into a one-element sequence; the result
\* is always a sequence.
C14_InNormalization ==
    \A k \in ValueRuns :
        LET o == history[k].outcome
            v == input.value
        IN input.operator = "IN" =>
               /\ IsReturn(o) /\ IsList(o.value)
               /\ IsList(v) => o.value = v
               /\ (IsStr(v) /\ Contains(v.s, ",")) =>
                      /\ v.s \in DOMAIN CommaItems
                      /\ o.value = ListV([i \in DOMAIN CommaItems[v.s] |->
                                             StrV(CommaItems[v.s][i])])
               /\ (~IsList(v) /\ ~(IsStr(v) /\ Contains(v.s, ","))) =>
                      o.value = ListV(<<v>>)

\* 'red, blue, green' with IN has become ['red', 'blue', 'green']
C14_Witness ==
    \E k \in ValueRuns :
        /\ input.operator = "IN"
        /\ input.value = StrV("red, blue, green")
        /\ history[k].outcome
               = Returned(ListV(<<StrV("red"), StrV("blue"), StrV("green")>>))

\* the two trimmed bounds of the range strings, split at the first separator
RangeBounds ==
    [x \in {"1 to 5", "1 TO 5"} |-> <<"1", "5">>]
    @@ [x \in {"a to b to c"} |-> <<"a", "b to c">>]
    @@ [x \in {"2024-01-01 - 2024-02-01"} |-> <<"2024-01-01", "2024-02-01">>]

\* C25: with operator BETWEEN, _process_filter_value returns a two-element
\* sequence unchanged, returns the two trimmed bounds around the first
\* separator for a string in which ' to ' (in any letter case) or ' - ' is
\* recognised, and raises for no string.
C25_BetweenNormalization ==
    \A k \in ValueRuns :
        LET o == history[k].outcome
            v == input.value
        IN input.operator = "BETWEEN" =>
               /\ (IsList(v) /\ Len(v.l) = 2) => o = Returned(v)
               /\ IsStr(v) => IsReturn(o)
               /\ (IsStr(v) /\ (Contains(Lower(v.s), " to ") \/ Contains(v.s, " - "))) =>
                      /\ v.s \in DOMAIN RangeBounds
                      /\ o = Returned(ListV(<<StrV(RangeBounds[v.s][1]),
                                              StrV(RangeBounds[v.s][2])>>))

\* the number of times method m occurs in the call log cs
Count(cs, m) == Cardinality({i \in DOMAIN cs : cs[i] = m})

\* entity e carries a non-empty mapped_column
PreMapped(e) == Get(e, "mapped_column", "") # ""

\* the number of entities of the query that carry no mapped_column
Unmapped == Cardinality({i \in DOMAIN QueryEntitiesOf : ~PreMapped(QueryEntitiesOf[i])})

\* the entities of the query for which build_filters makes a filter at all:
\* it makes none for the value 0
Filtered == SelectSeq(QueryEntitiesOf, LAMBDA e : e.entity_value # IntV(0))

\* C15: the filter of an entity that carries a non-empty mapped_column is on
\* that column, and no search of the provider is made for the entity: the
\* searches of a call are at most one of each kind per entity without
\* mapped_column (and the one table search of enrich).
C15_MappedColumnShortCircuits ==
    /\ \A k \in BuildRuns :
           LET h == history[k] IN
           /\ Count(h.calls, "search_schema") <= Unmapped
           /\ Count(h.calls, "search_table_heads") <= Unmapped
           /\ Count(h.calls, "find_similar_sql_pairs") <= Unmapped
           /\ (Unmapped = 0 /\ IsReturn(h.outcome)) =>
                  \A i \in DOMAIN Filtered :
                      /\ i <= Len(h.outcome.value)
                      /\ h.outcome.value[i].column_name = Filtered[i].mapped_column
    /\ \A k \in EnrichRuns :
           LET h == history[k] IN
           /\ Count(h.calls, "search_schema") <= 1 + Unmapped
           /\ Count(h.calls, "search_table_heads") <= Unmapped
           /\ Count(h.calls, "find_similar_sql_pairs") <= Unmapped
           /\ (Unmapped = 0 /\ IsReturn(h.outcome)) =>
                  \A i \in DOMAIN QueryEntitiesOf :
                      /\ i <= Len(h.outcome.value.filters)
                      /\ h.outcome.value.filters[i].column_name
                             = QueryEntitiesOf[i].mapped_column

\* build_filters and enrich have both kept the pre-supplied column of an
\* entity and made no search for it
C15_Witness ==
    /\ Len(QueryEntitiesOf) >= 1 /\ Unmapped = 0
    /\ \E k \in BuildRuns :
           /\ IsReturn(history[k].outcome)
           /\ Len(history[k].outcome.value) >= 1
           /\ history[k].outcome.value[1].column_name = QueryEntitiesOf[1].mapped_column
           /\ Count(history[k].calls, "search_schema") = 0
    /\ \E k \in EnrichRuns :
           /\ IsReturn(history[k].outcome)
           /\ history[k].outcome.value.filters[1].column_name
                  = QueryEntitiesOf[1].mapped_column
           /\ Count(history[k].calls, "search_schema") = 1

\* what the provider answers to the table search of the query: its top 3
TableHits == Take(Lookup(metastore.schema, <<QueryText(Decomp), NoFilter>>), 3)

\* C16: enrich begins by searching the provider for the tables that match the
\* goal and the entity types and values; the primary table of a returned
\* record is the first hit of that search; enrich fails with 'No relevant
\* tables found' exactly when the search finds nothing, and then the search is
\* the only provider call it has made.
C16_PrimaryTable ==
    \A k \in EnrichRuns :
        LET h == history[k] IN
        /\ Len(h.calls) >= 1 /\ h.calls[1] = "search_schema"
        /\ IsReturn(h.outcome) =>
               /\ TableHits # <<>>
               /\ h.outcome.value.table_metadata.primary_table = TableHits[1].name
        /\ SameOutcome(h.outcome, NoRelevantTable) <=> TableHits = <<>>
        /\ SameOutcome(h.outcome, NoRelevantTable) => h.calls = <<"search_schema">>

\* no filter can be built for the query on table t: it has no entity, and no
\* temporal filter or no date column to put it on
NoFilterPossible(t) ==
    /\ QueryEntitiesOf = <<>>
    /\ ~TruthyDict(QueryTemporal) \/ ~HasDateColumn(t)

\* C17: a call of enrich either raises or returns a record whose intent is
\* non-empty, whose primary table is set and whose filters and output columns
\* are non-empty; a query for which no filter can be built, or a counting
\* query on a table without key column, yields no record.
C17_NoPartialResult ==
    \A k \in EnrichRuns :
        LET o == history[k].outcome IN
        /\ IsReturn(o) =>
               /\ RecordFields \subseteq DOMAIN o.value
               /\ o.value.intent # ""
               /\ "primary_table" \in DOMAIN o.value.table_metadata
               /\ o.value.table_metadata.primary_table # ""
               /\ Len(o.value.filters) > 0
               /\ Len(o.value.output_columns) > 0
        /\ (TableHits # <<>> /\ NoFilterPossible(TableHits[1].name)) => IsRaise(o)
        /\ (TableHits # <<>> /\ CountingGoal /\ KeyColumnNames(TableHits[1].name) = <<>>)
               => IsRaise(o)

\* a counting query with a filter on tags, which has no key column, or a
\* temporal query on items, which has no date column, was refused by the
\* validation
C17_Witness ==
    \E k \in EnrichRuns :
        /\ TableHits # <<>>
        /\ \/ /\ CountingGoal /\ QueryEntitiesOf # <<>>
              /\ TableHits[1].name = "tags"
           \/ /\ QueryEntitiesOf = <<>> /\ TruthyDict(QueryTemporal)
              /\ TableHits[1].name = "items"
        /\ SameOutcome(history[k].outcome,
                       Raised("ValueError", "Contextual data missing required field"))

(***************************************************************************)
(* Claims about concurrent calls of enrich_query (SpecConcurrent)          *)
(***************************************************************************)
\* the completed call k ran alone: it began after every earlier call was
\* complete, and every later call began after it was complete
Alone(k) ==
    /\ history[k].began = k - 1
    /\ \A j \in DOMAIN history : j > k => history[j].began >= k

\* C18: a call of enrich that is interleaved with the calls of another caller
\* on the same provider has the outcome, and makes the provider calls, of a
\* call of the same query that runs alone, whatever the other caller's query
\* is; and no step of a call changes the provider.
C18_Stateless ==
    /\ [](\A j, k \in EnrichRuns :
              (/\ Alone(j)
               /\ QueryOf(history[j].caller) = QueryOf(history[k].caller))
                  => /\ SameOutcome(history[j].outcome, history[k].outcome)
                     /\ history[j].calls = history[k].calls)
    /\ [][metastore' = metastore]_vars

\* two calls with different queries overlapped and both returned, then one of
\* the queries ran alone and returned
C18_Witness ==
    /\ Len(history) = 3
    /\ history[2].began = 0
    /\ history[1].caller # history[2].caller
    /\ QueryOf(1) # QueryOf(2)
    /\ Alone(3)
    /\ \A k \in 1..3 : history[k].op = "enrich_query" /\ IsReturn(history[k].outcome)

\* the column of table t the temporal filter is to be put on: the first one
\* with a date type if there is one, else the first one with a date-like
\* name, else None
ExpectedDateColumn(t) ==
    LET columns == Get(Lookup(metastore.tables, t), "columns", <<>>)
        typed == SelectSeq(columns, LAMBDA col : ContainsAny(Upper(col.data_type),
                                                            <<"DATE", "TIME", "TIMESTAMP">>))
        named == SelectSeq(columns,
                           LAMBDA col : ContainsAny(Lower(col.name),
                                                    <<"date", "time", "created",
                                                      "updated", "timestamp">>))
    IN IF typed # <<>> THEN typed[1].name
       ELSE IF named # <<>> THEN named[1].name
       ELSE None

\* the date_range filters of a list of filters
DateFilters(filters) == SelectSeq(filters, LAMBDA f : f.filter_name = "date_range")

\* the filters are as the date-column rule of table t wants them: one
\* date_range filter on the expected column, none when there is no such column
DateColumnRule(filters, t) ==
    IF ExpectedDateColumn(t) = None THEN DateFilters(filters) = <<>>
    ELSE /\ Len(DateFilters(filters)) = 1
         /\ DateFilters(filters)[1].column_name = ExpectedDateColumn(t)

\* the date-column rule on the build_filters path; without a date column the
\* call still returns, with the entity filters
C19_BuildFiltersDateColumn ==
    \A k \in BuildRuns :
        LET o == history[k].outcome IN
        TruthyDict(QueryTemporal) =>
            /\ IsReturn(o)
            /\ DateColumnRule(o.value, input.table_name)
            /\ [i \in DOMAIN o.value |-> o.value[i].filter_name]
                   = ExpectedFilterNames(input.table_name)

\* C19: the temporal filter is put on the first column with a DATE, TIME or
\* TIMESTAMP type when the table has one, even after a column with a
\* date-like name, and only otherwise on the first column with a date-like
\* name; without either no temporal filter is emitted and the entity filters
\* are returned. This holds in build_filters and in enrich.
C19_DateColumn ==
    /\ C19_BuildFiltersDateColumn
    /\ \A k \in EnrichRuns :
           LET o == history[k].outcome IN
           (TruthyDict(QueryTemporal) /\ IsReturn(o)) =>
               DateColumnRule(o.value.filters, o.value.table_metadata.primary_table)

\* the operator the priority rules give for an entity: negation prefix, then
\* comparison phrase, then the entity-type table, then '='; prefixes, phrases
\* and types are compared without regard to letter case
RuleOperator(type, value) ==
    LET low == IF IsStr(value) THEN Lower(value.s) ELSE ""
        TypeTable == [t \in {"status", "priority", "category", "type"} |-> "="]
                     @@ [t \in {"count", "amount"} |-> ">"]
                     @@ [t \in {"limit"} |-> "<="]
                     @@ [t \in {"threshold"} |-> ">="]
    IN IF \E p \in {"not ", "isn't ", "is not ", "doesn't ", "does not "} :
              StartsWith(low, p)
       THEN "!="
       ELSE IF PhrasesOf(low) # {}
       THEN ComparisonPhrases[CHOOSE p \in PhrasesOf(low) : TRUE]
       ELSE IF Lower(type) \in DOMAIN TypeTable THEN TypeTable[Lower(type)]
       ELSE "="

\* every entity filter of the list has the operator the rules give for an
\* entity of the query of its name
RuleOperators(filters) ==
    \A i \in DOMAIN filters :
        filters[i].filter_name # "date_range" =>
            \E j \in DOMAIN QueryEntitiesOf :
                /\ QueryEntitiesOf[j].entity_type = filters[i].filter_name
                /\ filters[i].operator
                       = RuleOperator(QueryEntitiesOf[j].entity_type,
                                      QueryEntitiesOf[j].entity_value)

\* the priority rules on the build_filters path
C20_BuildFiltersOperators ==
    \A k \in BuildRuns :
        IsReturn(history[k].outcome) => RuleOperators(history[k].outcome.value)

\* C20: the operator of every entity filter returned by build_filters and by
\* enrich is the one the rules give in their priority: '!=' for a value with
\* a negation prefix, else the operator of the comparison phrase the value
\* begins with, else the operator of the entity-type table, else '='.
C20_OperatorPriority ==
    /\ C20_BuildFiltersOperators
    /\ \A k \in EnrichRuns :
           IsReturn(history[k].outcome)
               => RuleOperators(history[k].outcome.value.filters)

\* the temporal filter of the query carries a populated value
Populated == "value" \in DOMAIN QueryTemporal /\ Truthy(QueryTemporal.value)

\* the operator and the filter value a populated temporal value gives by its
\* shape: two elements BETWEEN, a string or one element '=', else '>'
ShapeEntry(v) ==
    IF IsList(v) /\ Len(v.l) = 2 THEN <<"BETWEEN", v>>
    ELSE IF IsStr(v) THEN <<"=", v>>
    ELSE IF IsList(v) /\ Len(v.l) = 1 THEN <<"=", v.l[1]>>
    ELSE <<">", v>>

\* the date_range filter of a list of filters is the one the shape of the
\* temporal value of the query gives: a populated value by its shape,
\* whatever the conditional_statement is, and '>' for a filter that has
\* neither a value nor a conditional_statement
ShapeRule(filters) ==
    /\ Populated =>
           /\ Len(DateFilters(filters)) = 1
           /\ DateFilters(filters)[1].operator = ShapeEntry(QueryTemporal.value)[1]
           /\ DateFilters(filters)[1].value = ShapeEntry(QueryTemporal.value)[2]
    /\ (~Populated /\ Get(QueryTemporal, "conditional_statement", "") = "") =>
           /\ Len(DateFilters(filters)) = 1
           /\ DateFilters(filters)[1].operator = ">"

\* the derivation of the temporal operator on the build_filters path
C21_BuildFiltersTemporalOperator ==
    \A k \in BuildRuns :
        (TruthyDict(QueryTemporal) /\ HasDateColumn(input.table_name)) =>
            /\ IsReturn(history[k].outcome)
            /\ ShapeRule(history[k].outcome.value)

\* C21: the operator of the date_range filter follows from the shape of the
\* temporal value alone: BETWEEN for two elements, '=' for a string or one
\* element, '>' for anything else; a populated value is used and the
\* conditional_statement is then not resolved. This holds for the filters of
\* build_filters and of enrich.
C21_TemporalOperator ==
    /\ C21_BuildFiltersTemporalOperator
    /\ \A k \in EnrichRuns :
           LET o == history[k].outcome IN
           (/\ TruthyDict(QueryTemporal) /\ IsReturn(o)
            /\ HasDateColumn(o.value.table_metadata.primary_table))
               => ShapeRule(o.value.filters)

ComparisonOperators == {"=", "!=", "<", ">", "<=", ">="}

\* C26: in every list build_filters returns, a filter made from an entity has
\* one of the six comparison operators and a value that is no sequence;
\* BETWEEN occurs only on the date_range filter and IN on no filter.
C26_ReachableOperators ==
    \A k \in BuildRuns :
        LET o == history[k].outcome IN
        IsReturn(o) =>
            \A i \in DOMAIN o.value :
                LET f == o.value[i] IN
                /\ f.operator # "IN"
                /\ f.operator = "BETWEEN" => f.filter_name = "date_range"
                /\ f.filter_name # "date_range" =>
                       /\ f.operator \in ComparisonOperators
                       /\ ~IsList(f.value)

\* build_filters returned the filter of a status whose value lists two items,
\* with operator '=' and the value still the string
C26_Witness ==
    \E k \in BuildRuns :
        /\ IsReturn(history[k].outcome)
        /\ \E i \in DOMAIN history[k].outcome.value :
               LET f == history[k].outcome.value[i] IN
               /\ f.filter_name = "status"
               /\ f.operator = "="
               /\ f.value = StrV("red, blue")

\* entity e has a non-empty type and a supplied value: any value other than
\* the empty string, the number 0 included
Supplied(e) ==
    /\ Get(e, "entity_type", "") # ""
    /\ "entity_value" \in DOMAIN e
    /\ e.entity_value # StrV("")

\* C28: build_filters returns one filter for each entity that has a non-empty
\* type, a supplied value (the number 0 included) and a pre-mapped or
\* resolvable column, in entity order, followed by at most one date_range
\* filter, and it consults the provider once for every supplied entity
\* without a pre-mapped column.
C28_OneFilterPerEntity ==
    \A k \in BuildRuns :
        LET o == history[k].outcome
            t == input.table_name
            kept == SelectSeq(QueryEntitiesOf,
                        LAMBDA e : /\ Supplied(e)
                                   /\ PreMapped(e) \/ ~ExhaustedOf(e, t))
            asked == {i \in DOMAIN QueryEntitiesOf :
                         Supplied(QueryEntitiesOf[i]) /\ ~PreMapped(QueryEntitiesOf[i])}
        IN /\ IsReturn(o)
           /\ [i \in DOMAIN o.value |-> o.value[i].filter_name]
                  = [i \in DOMAIN kept |-> kept[i].entity_type]
                    \o (IF TruthyDict(QueryTemporal) /\ HasDateColumn(t)
                        THEN <<"date_range">> ELSE <<>>)
           /\ Count(history[k].calls, "search_schema") = Cardinality(asked)

(***************************************************************************)
(* Claims about the MetaStore index (SpecStore)                            *)
(***************************************************************************)
\* the text index_schema_data writes for an item with the given metadata
TextOf(metadata) ==
    IF metadata.type = "table" THEN "Table: " \o metadata.table_name
    ELSE IF metadata.type = "column"
    THEN "Column: " \o metadata.column_name \o " in table " \o metadata.table_name
         \o " with type " \o metadata.column_type
    ELSE "Foreign Key: " \o Join(metadata.constrained_columns, ", ")
         \o " in table " \o metadata.table_name \o " references "
         \o Join(metadata.referred_columns, ", ") \o " in table "
         \o metadata.referred_table

\* the vector, the text and the metadata describe one and the same item
SameItem(vector, text, metadata) ==
    vector = <<"vector", text>> /\ text = TextOf(metadata)

\* the index and the two lists are parallel
Parallel ==
    /\ Len(store.schema_index) = Len(store.schema_texts)
    /\ Len(store.schema_texts) = Len(store.schema_metadata)
    /\ \A i \in DOMAIN store.schema_index :
           SameItem(store.schema_index[i], store.schema_texts[i],
                    store.schema_metadata[i])

\* C29: after any sequence of construction, index_schema_data, _save_indices
\* and re-loading, whatever fails on the way, the vector index, schema_texts
\* and schema_metadata have the same number of entries and every position
\* holds the same item in all three; every hit of search_schema carries the
\* text and the metadata of the vector that matched.
C29_IndexConsistent ==
    /\ Parallel
    /\ \A k \in DOMAIN history :
           history[k].op = "search_schema" =>
               /\ IsReturn(history[k].outcome)
               /\ Len(history[k].outcome.value) = Len(history[k].found)
               /\ \A i \in DOMAIN history[k].outcome.value :
                      SameItem(history[k].found[i],
                               history[k].outcome.value[i].text,
                               history[k].outcome.value[i].metadata)

(***************************************************************************)
(* Claims about DatabaseConnection (SpecDb)                                *)
(***************************************************************************)
\* the most recent connect() completed before operation k returned True
ConnectedBefore(k) ==
    /\ \E j \in Connects : j < k
    /\ LET last == CHOOSE j \in Connects :
                       j < k /\ \A i \in Connects : i < k => i <= j
       IN history[last].outcome = Returned(TRUE)

\* the connect() call numbered n returned True
Succeeded(n) ==
    \E k \in Connects :
        /\ Cardinality({j \in Connects : j <= k}) = n
        /\ history[k].outcome = Returned(TRUE)

\* C30: engine, metadata and inspector are all unset or all set by one and
\* the same successful connect(); an operation contacts the database only
\* when the most recent connect() returned True; otherwise execute_query
\* returns (False, 'Not connected to database'), get_tables returns [] and
\* get_schema_info returns {}.
C30_ConnectionState ==
    /\ db.engine = db.metadata /\ db.metadata = db.inspector
    /\ db.engine # 0 => Succeeded(db.engine)
    /\ \A k \in DOMAIN history \ Connects :
           ~ConnectedBefore(k) =>
               /\ history[k].contacted = 0
               /\ history[k].op = "execute_query" =>
                      history[k].outcome = Returned(<<FALSE, NotConnected>>)
               /\ history[k].op \in {"get_tables", "get_schema_info"} =>
                      history[k].outcome = Returned(<<>>)

====
